---- MODULE Spec2Model ----
(***************************************************************************)
(* Response translation of the OpenAI-compatible adapters of               *)
(* claude-worker-proxy (src/src/oainew.ts): the chat-completions dialect   *)
(* (first class impl, lines 5-263) and the responses dialect (second class *)
(* impl, lines 268-545).                                                   *)
(*                                                                         *)
(* Texts are sequences of one-character strings, so that fragments can be  *)
(* concatenated and parsed character by character.                         *)
(***************************************************************************)
EXTENDS Integers, Sequences, FiniteSets, TLC

(***************************************************************************)
(* Bounds of the model.                                                    *)
(***************************************************************************)
\* Records fed to one streamed response before the upstream ends.
MaxRecords == 3

\* Longest accumulated arguments buffer, in characters.
MaxArgLen == 8
MaxMessages == 2

(***************************************************************************)
(* JSON.parse, on texts over the characters { } " a : 1 , and blank.       *)
(* Over this alphabet the JSON values are: numbers (a run of the digit 1), *)
(* strings (any characters but the quote between two quotes) and objects.  *)
(* A parsed value is represented by its JSON.stringify text: insignificant *)
(* whitespace removed, duplicate keys resolved as a JS object resolves     *)
(* them (first position, last value; integer-like keys first, ascending).  *)
(***************************************************************************)
QT == "\""

IsWs(c) == c = " "

IsDigit(c) == c = "1"

RECURSIVE SkipWs(_, _)
SkipWs(s, i) ==
    IF i <= Len(s) /\ IsWs(s[i]) THEN SkipWs(s, i + 1) ELSE i

RECURSIVE DigitsEnd(_, _)
DigitsEnd(s, i) ==
    IF i <= Len(s) /\ IsDigit(s[i]) THEN DigitsEnd(s, i + 1) ELSE i

\* Index of the quote closing a string whose body starts at i; 0 when none.
RECURSIVE StringEnd(_, _)
StringEnd(s, i) ==
    IF i > Len(s) THEN 0
    ELSE IF s[i] = QT THEN i
    ELSE StringEnd(s, i + 1)

ParseFail == [ok |-> FALSE, next |-> 0, txt |-> <<>>]

\* A key that JS treats as an array index: a canonical non-negative integer.
IsIndexKey(k) ==
    /\ Len(k) > 2
    /\ \A i \in 2..(Len(k) - 1) : IsDigit(k[i])

\* obj[k] = v on an object held as an ordered member list.
SetMember(ms, k, v) ==
    IF \E i \in 1..Len(ms) : ms[i].k = k
    THEN [i \in 1..Len(ms) |-> IF ms[i].k = k THEN [k |-> k, v |-> v] ELSE ms[i]]
    ELSE Append(ms, [k |-> k, v |-> v])

\* The index keys of ms in ascending order (over the digit 1: by length).
RECURSIVE IndexMembers(_, _)
IndexMembers(ms, len) ==
    IF \A i \in 1..Len(ms) : ~IsIndexKey(ms[i].k) \/ Len(ms[i].k) < len
    THEN <<>>
    ELSE SelectSeq(ms, LAMBDA m : IsIndexKey(m.k) /\ Len(m.k) = len)
             \o IndexMembers(ms, len + 1)

\* Property enumeration order of a JS object: index keys, then the others.
OwnKeysOrder(ms) ==
    IndexMembers(ms, 3) \o SelectSeq(ms, LAMBDA m : ~IsIndexKey(m.k))

RECURSIVE RenderMembers(_)
RenderMembers(ms) ==
    IF ms = <<>> THEN <<>>
    ELSE Head(ms).k \o <<":">> \o Head(ms).v
             \o (IF Len(ms) > 1 THEN <<",">> ELSE <<>>)
             \o RenderMembers(Tail(ms))

RenderObject(ms) == <<"{">> \o RenderMembers(OwnKeysOrder(ms)) \o <<"}">>

RECURSIVE ParseValue(_, _)
RECURSIVE ParseMembers(_, _, _)

\* One value starting exactly at s[i].
ParseValue(s, i) ==
    IF i > Len(s) THEN ParseFail
    ELSE IF IsDigit(s[i])
    THEN LET j == DigitsEnd(s, i)
         IN  [ok |-> TRUE, next |-> j, txt |-> SubSeq(s, i, j - 1)]
    ELSE IF s[i] = QT
    THEN LET e == StringEnd(s, i + 1)
         IN  IF e = 0 THEN ParseFail
             ELSE [ok |-> TRUE, next |-> e + 1, txt |-> SubSeq(s, i, e)]
    ELSE IF s[i] = "{"
    THEN LET j == SkipWs(s, i + 1)
         IN  IF j <= Len(s) /\ s[j] = "}"
             THEN [ok |-> TRUE, next |-> j + 1, txt |-> <<"{", "}">>]
             ELSE ParseMembers(s, j, <<>>)
    ELSE ParseFail

\* The members of an object from s[i] (whitespace skipped) to its brace.
ParseMembers(s, i, ms) ==
    IF i > Len(s) \/ s[i] # QT THEN ParseFail
    ELSE LET e == StringEnd(s, i + 1)
         IN  IF e = 0 THEN ParseFail
             ELSE LET key == SubSeq(s, i, e)
                      c   == SkipWs(s, e + 1)
                  IN  IF c > Len(s) \/ s[c] # ":" THEN ParseFail
                      ELSE LET v == ParseValue(s, SkipWs(s, c + 1))
                           IN  IF ~v.ok THEN ParseFail
                               ELSE LET m   == SkipWs(s, v.next)
                                        ms2 == SetMember(ms, key, v.txt)
                                    IN  IF m > Len(s) THEN ParseFail
                                        ELSE IF s[m] = ","
                                        THEN ParseMembers(s, SkipWs(s, m + 1), ms2)
                                        ELSE IF s[m] = "}"
                                        THEN [ok |-> TRUE, next |-> m + 1,
                                              txt |-> RenderObject(ms2)]
                                        ELSE ParseFail

\* JSON.parse(s): ok is FALSE where JSON.parse throws a SyntaxError.
JSONParse(s) ==
    LET v == ParseValue(s, SkipWs(s, 1))
    IN  IF v.ok /\ SkipWs(s, v.next) = Len(s) + 1
        THEN [ok |-> TRUE, txt |-> v.txt]
        ELSE [ok |-> FALSE, txt |-> <<>>]

(***************************************************************************)
(* Wire model.  An optional string field that is absent is held as "", an  *)
(* absent text as << >>: every test the code makes on them is a            *)
(* truthiness test, which does not tell undefined from the empty string.   *)
(***************************************************************************)
\* toolCall.index when the fragment carries none (index ?? 0 then reads 0).
NoIndex == -1

\* One element of delta.tool_calls; function?.name and function?.arguments
\* are flattened into name and arguments.
Frag(index, id, name, arguments) ==
    [index |-> index, id |-> id, name |-> name, arguments |-> arguments]

\* One SSE record.  parses: whether JSON.parse accepts its payload (a payload
\* that does not parse is a truncated copy of the chunk the fields describe);
\* hasChoices: whether choices is a non-empty list.
Record(parses, hasChoices, content, tool_calls) ==
    [parses |-> parses, hasChoices |-> hasChoices,
     content |-> content, tool_calls |-> tool_calls]

Delta(content, tool_calls) == Record(TRUE, TRUE, content, tool_calls)

\* A client SSE event.  block is the content_block type of a start and the
\* delta type of a delta (text / tool_use); a stop carries its index only.
Event(type, index, block, id, name, payload) ==
    [type |-> type, index |-> index, block |-> block,
     id |-> id, name |-> name, payload |-> payload]

\* utils.generateId(): an identifier the backend never sent.
GeneratedId == "toolu_generated"

\* utils.processTextPart(text, index): one text block, opened, filled, closed.
processTextPart(text, index) ==
    << Event("content_block_start", index, "text", "", "", <<>>),
       Event("content_block_delta", index, "text", "", "", text),
       Event("content_block_stop", index, "", "", "", <<>>) >>

\* utils.processToolUsePart({name, args}, index): one tool_use block; its id
\* can only be a generated one, the call passes name and args alone.
processToolUsePart(functionCall, index) ==
    << Event("content_block_start", index, "tool_use", GeneratedId,
             functionCall.name, <<>>),
       Event("content_block_delta", index, "tool_use", "", "", functionCall.args),
       Event("content_block_stop", index, "", "", "", <<>>) >>

\* toolCallAccumulator.set(toolIndex, {}).
EmptyEntry == [id |-> "", name |-> "", arguments |-> <<>>]

\* What one call of the decode callback leaves behind.  tag: "throw" (an
\* exception left the callback), "null" (return null) or "ok".  log is a
\* history of the merges of this call, one entry per tool-call fragment.
Outcome(tag, events, textBlockIndex, toolUseBlockIndex, acc, log) ==
    [tag |-> tag, events |-> events, textBlockIndex |-> textBlockIndex,
     toolUseBlockIndex |-> toolUseBlockIndex, acc |-> acc, log |-> log]

Merge(slot, fresh, entry, emitted, index) ==
    [slot |-> slot, fresh |-> fresh, entry |-> entry,
     emitted |-> emitted, index |-> index]

(***************************************************************************)
(* Chat-completions dialect: the callback of convertStreamResponse.        *)
(***************************************************************************)
\* Mutant: a lenient parser that recovers the chunk from a truncated payload.
ChatPayloadParsesLenient(rec) == TRUE

\* const openaiData = JSON.parse(jsonStr): does it return?
ChatPayloadParses(rec) == rec.parses

\* Mutant: the text cursor is not advanced.
ChatNextTextIndexStuck(i) == i

\* Mutant: the text cursor is advanced by two.
ChatNextTextIndexTwice(i) == i + 2

\* currentTextIndex++
ChatNextTextIndex(i) == i + 1

\* Mutant: the fragment replaces the buffer instead of extending it.
ChatAppendArgumentsOverwrite(old, fragment) == fragment

\* Mutant: the fragment is put in front of the buffer.
ChatAppendArgumentsPrepend(old, fragment) == fragment \o old

\* accumulated.arguments = (accumulated.arguments || '') + arguments
ChatAppendArguments(old, fragment) == old \o fragment

\* The functionCall handed to processToolUsePart.
ChatFunctionCall(accumulated, args) ==
    [name |-> accumulated.name, args |-> args]

\* Mutant: a completed call is announced at once by a message_delta.
ChatToolUseEventsWithDelta(functionCall, index) ==
    processToolUsePart(functionCall, index)
        \o <<Event("message_delta", NoIndex, "tool_use", "", "", <<>>)>>

\* events.push(...utils.processToolUsePart(functionCall, currentToolIndex))
ChatToolUseEvents(functionCall, index) == processToolUsePart(functionCall, index)

\* Mutant: a parser that takes any text for complete.
ChatParseArgumentsLenient(arguments) == [ok |-> TRUE, txt |-> arguments]

\* try { const args = JSON.parse(accumulated.arguments) ... } catch (e) { }
ChatParseArguments(arguments) == JSONParse(arguments)

\* Mutant: the entry of an emitted call is left in the accumulator.
ChatDeleteEntryForgotten(acc, toolIndex) == acc

\* Mutant: the buffer of an emitted call is emptied, its entry kept.
ChatDeleteEntryKeepsName(acc, toolIndex) ==
    [acc EXCEPT ![toolIndex] = [id |-> "", name |-> acc[toolIndex].name,
                                arguments |-> <<>>]]

\* toolCallAccumulator.delete(toolIndex)
ChatDeleteEntry(acc, toolIndex) ==
    [k \in (DOMAIN acc) \ {toolIndex} |-> acc[k]]

\* Mutant: every fragment is taken for one of slot 0.
ChatToolIndexZero(toolCall) == 0

\* const toolIndex = toolCall.index ?? 0
ChatToolIndex(toolCall) == IF toolCall.index = NoIndex THEN 0 ELSE toolCall.index

\* The body of the loop over delta.tool_calls, for one toolCall.
ChatMergeToolCall(st, toolCall) ==
    LET toolIndex == ChatToolIndex(toolCall)
        fresh == toolIndex \notin DOMAIN st.acc
        acc1 == IF fresh THEN (toolIndex :> EmptyEntry) @@ st.acc ELSE st.acc
        old == acc1[toolIndex]
        accumulated ==
            [id |-> IF toolCall.id # "" THEN toolCall.id ELSE old.id,
             name |-> IF toolCall.name # "" THEN toolCall.name ELSE old.name,
             arguments |->
                 IF toolCall.arguments # <<>>
                 THEN ChatAppendArguments(old.arguments, toolCall.arguments)
                 ELSE old.arguments]
        acc2 == [acc1 EXCEPT ![toolIndex] = accumulated]
        parsed == ChatParseArguments(accumulated.arguments)
    IN  IF accumulated.name # "" /\ accumulated.arguments # <<>> /\ parsed.ok
        THEN [acc |-> ChatDeleteEntry(acc2, toolIndex),
              events |-> st.events \o
                  ChatToolUseEvents(ChatFunctionCall(accumulated, parsed.txt),
                                    st.currentToolIndex),
              currentToolIndex |-> st.currentToolIndex + 1,
              log |-> Append(st.log, Merge(toolIndex, fresh, accumulated, TRUE,
                                           st.currentToolIndex))]
        ELSE [acc |-> acc2,
              events |-> st.events,
              currentToolIndex |-> st.currentToolIndex,
              log |-> Append(st.log, Merge(toolIndex, fresh, accumulated, FALSE,
                                           NoIndex))]

RECURSIVE ChatToolCallsLoop(_, _)
ChatToolCallsLoop(st, tool_calls) ==
    IF tool_calls = <<>> THEN st
    ELSE ChatToolCallsLoop(ChatMergeToolCall(st, Head(tool_calls)), Tail(tool_calls))

\* Mutant: the choices of the payload are not looked at.
ChatNoChoicesUnchecked(rec) == FALSE

\* !openaiData.choices || openaiData.choices.length === 0
ChatNoChoices(rec) == ~rec.hasChoices

\* (jsonStr, textBlockIndex, toolUseBlockIndex) => ... over the accumulator acc.
ChatDecode(rec, textBlockIndex, toolUseBlockIndex, acc) ==
    IF ~ChatPayloadParses(rec)
    THEN Outcome("throw", <<>>, textBlockIndex, toolUseBlockIndex, acc, <<>>)
    ELSE IF ChatNoChoices(rec)
    THEN Outcome("null", <<>>, textBlockIndex, toolUseBlockIndex, acc, <<>>)
    ELSE LET hasText == rec.content # <<>>
             textEvents == IF hasText
                           THEN processTextPart(rec.content, textBlockIndex)
                           ELSE <<>>
             currentTextIndex == IF hasText
                                 THEN ChatNextTextIndex(textBlockIndex)
                                 ELSE textBlockIndex
             st == ChatToolCallsLoop(
                       [acc |-> acc, events |-> textEvents,
                        currentToolIndex |-> toolUseBlockIndex, log |-> <<>>],
                       rec.tool_calls)
         IN  Outcome("ok", st.events, currentTextIndex, st.currentToolIndex,
                     st.acc, st.log)

(***************************************************************************)
(* Responses dialect: the callback of its convertStreamResponse.           *)
(***************************************************************************)
RespMergeToolCall(st, toolCall) ==
    LET toolIndex == IF toolCall.index = NoIndex THEN 0 ELSE toolCall.index
        fresh == ~(toolIndex \in DOMAIN st.acc)
        acc1 == IF fresh THEN (toolIndex :> EmptyEntry) @@ st.acc ELSE st.acc
        a0 == acc1[toolIndex]
        a1 == IF toolCall.id # "" THEN [a0 EXCEPT !.id = toolCall.id] ELSE a0
        a2 == IF toolCall.name # "" THEN [a1 EXCEPT !.name = toolCall.name] ELSE a1
        accumulated ==
            IF toolCall.arguments # <<>>
            THEN [a2 EXCEPT !.arguments = a2.arguments \o toolCall.arguments]
            ELSE a2
        acc2 == [acc1 EXCEPT ![toolIndex] = accumulated]
        parsed == JSONParse(accumulated.arguments)
    IN  IF accumulated.name # "" /\ accumulated.arguments # <<>> /\ parsed.ok
        THEN [acc |-> [k \in (DOMAIN acc2) \ {toolIndex} |-> acc2[k]],
              events |-> st.events \o
                  processToolUsePart([name |-> accumulated.name,
                                      args |-> parsed.txt],
                                     st.currentToolIndex),
              currentToolIndex |-> st.currentToolIndex + 1,
              log |-> Append(st.log, Merge(toolIndex, fresh, accumulated, TRUE,
                                           st.currentToolIndex))]
        ELSE [acc |-> acc2,
              events |-> st.events,
              currentToolIndex |-> st.currentToolIndex,
              log |-> Append(st.log, Merge(toolIndex, fresh, accumulated, FALSE,
                                           NoIndex))]

\* Mutant: only the first fragment of a record is merged.
RespToolCallsLoopFirstOnly(st, tool_calls) ==
    IF tool_calls = <<>> THEN st ELSE RespMergeToolCall(st, Head(tool_calls))

\* for (const toolCall of delta.tool_calls)
RECURSIVE RespToolCallsLoop(_, _)
RespToolCallsLoop(st, tool_calls) ==
    IF tool_calls = <<>> THEN st
    ELSE RespToolCallsLoop(RespMergeToolCall(st, Head(tool_calls)), Tail(tool_calls))

RespDecode(rec, textBlockIndex, toolUseBlockIndex, acc) ==
    IF ~rec.parses
    THEN Outcome("throw", <<>>, textBlockIndex, toolUseBlockIndex, acc, <<>>)
    ELSE IF ~rec.hasChoices
    THEN Outcome("null", <<>>, textBlockIndex, toolUseBlockIndex, acc, <<>>)
    ELSE LET textEvents == IF rec.content # <<>>
                           THEN processTextPart(rec.content, textBlockIndex)
                           ELSE <<>>
             currentTextIndex == IF rec.content # <<>>
                                 THEN textBlockIndex + 1
                                 ELSE textBlockIndex
             st == RespToolCallsLoop(
                       [acc |-> acc, events |-> textEvents,
                        currentToolIndex |-> toolUseBlockIndex, log |-> <<>>],
                       rec.tool_calls)
         IN  Outcome("ok", st.events, currentTextIndex, st.currentToolIndex,
                     st.acc, st.log)

\* The decode callback of the adapter in use.
Decode(d, rec, textBlockIndex, toolUseBlockIndex, acc) ==
    IF d = "chat"
    THEN ChatDecode(rec, textBlockIndex, toolUseBlockIndex, acc)
    ELSE RespDecode(rec, textBlockIndex, toolUseBlockIndex, acc)

(***************************************************************************)
(* Non-stream mappers.  A backend body holds choices (chat-completions)    *)
(* and output (responses); the list a body does not carry is << >>.  The   *)
(* client message: threw is TRUE where convertNormalResponse rejects (a    *)
(* JSON.parse of arguments threw); stop_reason "" is an unset stop_reason. *)
(***************************************************************************)
Block(type, text, id, name, input) ==
    [type |-> type, text |-> text, id |-> id, name |-> name, input |-> input]

NoUsage == [present |-> FALSE, input_tokens |-> 0, output_tokens |-> 0]

Message(threw, content, stop_reason, usage) ==
    [threw |-> threw, content |-> content, stop_reason |-> stop_reason,
     usage |-> usage]

\* claudeResponse.usage, set when the backend body has usage.
MapUsage(usage) ==
    IF usage.present
    THEN [present |-> TRUE, input_tokens |-> usage.prompt_tokens,
          output_tokens |-> usage.completion_tokens]
    ELSE NoUsage

RECURSIVE ChatToolUseBlocks(_)
ChatToolUseBlocks(tool_calls) ==
    IF tool_calls = <<>> THEN <<>>
    ELSE LET toolCall == Head(tool_calls)
         IN  <<Block("tool_use", <<>>, toolCall.id, toolCall.name,
                     JSONParse(toolCall.arguments).txt)>>
                 \o ChatToolUseBlocks(Tail(tool_calls))

\* convertNormalResponse of the chat-completions dialect, on the parsed body.
ChatNormalResponse(openaiData) ==
    IF openaiData.choices = <<>>
    THEN Message(FALSE, <<>>, "", MapUsage(openaiData.usage))
    ELSE LET choice == openaiData.choices[1]
             message == choice.message
             textBlocks == IF message.content # <<>>
                           THEN <<Block("text", message.content, "", "", <<>>)>>
                           ELSE <<>>
         IN  IF message.has_tool_calls
             THEN IF \E i \in 1..Len(message.tool_calls) :
                         ~JSONParse(message.tool_calls[i].arguments).ok
                  THEN Message(TRUE, <<>>, "", NoUsage)
                  ELSE Message(FALSE,
                               textBlocks \o ChatToolUseBlocks(message.tool_calls),
                               "tool_use", MapUsage(openaiData.usage))
             ELSE IF choice.finish_reason = "length"
             THEN Message(FALSE, textBlocks, "max_tokens", MapUsage(openaiData.usage))
             ELSE Message(FALSE, textBlocks, "end_turn", MapUsage(openaiData.usage))

\* The block one item of responsesData.output contributes, if any.
RespItemBlocks(item) ==
    IF item.type = "text" /\ item.content # <<>>
    THEN <<Block("text", item.content, "", "", <<>>)>>
    ELSE IF item.type = "function_call"
    THEN <<Block("tool_use", <<>>,
                 IF item.call_id # "" THEN item.call_id ELSE GeneratedId,
                 item.name,
                 IF item.arguments # <<>>
                 THEN JSONParse(item.arguments).txt
                 ELSE <<"{", "}">>)>>
    ELSE <<>>

RECURSIVE RespBlocks(_)
RespBlocks(output) ==
    IF output = <<>> THEN <<>>
    ELSE RespItemBlocks(Head(output)) \o RespBlocks(Tail(output))

\* convertNormalResponse of the responses dialect, on the parsed body.
RespNormalResponse(responsesData) ==
    IF responsesData.output = <<>>
    THEN Message(FALSE, <<>>, "", MapUsage(responsesData.usage))
    ELSE IF \E i \in 1..Len(responsesData.output) :
                /\ responsesData.output[i].type = "function_call"
                /\ responsesData.output[i].arguments # <<>>
                /\ ~JSONParse(responsesData.output[i].arguments).ok
    THEN Message(TRUE, <<>>, "", NoUsage)
    ELSE LET hasToolUse == \E i \in 1..Len(responsesData.output) :
                               responsesData.output[i].type = "function_call"
         IN  Message(FALSE, RespBlocks(responsesData.output),
                     IF hasToolUse THEN "tool_use" ELSE "end_turn",
                     MapUsage(responsesData.usage))

NormalResponse(d, data) ==
    IF d = "chat" THEN ChatNormalResponse(data) ELSE RespNormalResponse(data)

(***************************************************************************)
(* convertToClaudeResponse: which way a backend response goes.             *)
(***************************************************************************)
\* A Response: its status, its content-type header (a sequence of parts,
\* << >> when the header is missing) and its body.
Response(status, contentType, body) ==
    [status |-> status, contentType |-> contentType, body |-> body]

\* Response.ok
Ok(resp) == resp.status >= 200 /\ resp.status <= 299

\* contentType.includes('text/event-stream')
IsStream(resp) ==
    \E i \in 1..Len(resp.contentType) : resp.contentType[i] = "text/event-stream"

\* Mutant: the response is dispatched on its content type whatever its status.
ChatRouteIgnoringStatus(resp) ==
    IF IsStream(resp) THEN "stream" ELSE "normal"

\* Mutant: the stream path is taken for the bare content type only.
ChatRouteExactType(resp) ==
    IF ~Ok(resp) THEN "unchanged"
    ELSE IF resp.contentType = <<"text/event-stream">> THEN "stream"
    ELSE "normal"

\* convertToClaudeResponse of the chat-completions dialect.
ChatRoute(resp) ==
    IF ~Ok(resp) THEN "unchanged"
    ELSE IF IsStream(resp) THEN "stream"
    ELSE "normal"

\* convertToClaudeResponse of the responses dialect.
RespRoute(resp) ==
    IF ~(resp.status >= 200 /\ resp.status <= 299) THEN "unchanged"
    ELSE IF IsStream(resp) THEN "stream"
    ELSE "normal"

Route(d, resp) == IF d = "chat" THEN ChatRoute(resp) ELSE RespRoute(resp)

(***************************************************************************)
(* Request mappers.  A structured value (the input of a tool_use block,    *)
(* the content of a tool_result that is not a string) is held as the       *)
(* sequence of its members, each a key and the JSON text of its value.     *)
(***************************************************************************)
\* An optional number the request does not carry (max_tokens, temperature).
Undefined == -1

\* JSON.stringify of a structured value.
JSONStringify(value) == RenderObject(value)

\* One block of a client message with block content.  text: the text of a
\* text block, or the content of a tool_result that is a string; id: the id
\* of a tool_use, the tool_use_id of a tool_result; input: the input of a
\* tool_use, or the content of a tool_result that is not a string.
ContentBlock(type, text, id, name, input, isString) ==
    [type |-> type, text |-> text, id |-> id, name |-> name, input |-> input,
     isString |-> isString]

TextBlock(text) == ContentBlock("text", text, "", "", <<>>, TRUE)

ToolUseBlock(id, name, input) ==
    ContentBlock("tool_use", <<>>, id, name, input, FALSE)

ToolResultBlock(tool_use_id, content) ==
    ContentBlock("tool_result", content, tool_use_id, "", <<>>, TRUE)

ToolResultData(tool_use_id, content) ==
    ContentBlock("tool_result", <<>>, tool_use_id, "", content, FALSE)

\* A client message: content is a string (isString, text) or a block list.
ClaudeMessage(role, isString, text, blocks) ==
    [role |-> role, isString |-> isString, text |-> text, blocks |-> blocks]

StringMessage(role, text) == ClaudeMessage(role, TRUE, text, <<>>)

BlockMessage(role, blocks) == ClaudeMessage(role, FALSE, <<>>, blocks)

\* A backend message.  isNull: content is null; tool_calls and tool_call_id
\* the message does not carry are << >> and "".
OpenAIMessage(role, content, isNull, tool_calls, tool_call_id) ==
    [role |-> role, content |-> content, isNull |-> isNull,
     tool_calls |-> tool_calls, tool_call_id |-> tool_call_id]

\* textContents.join('\n')
RECURSIVE Join(_)
Join(texts) ==
    IF texts = <<>> THEN <<>>
    ELSE IF Len(texts) = 1 THEN texts[1]
    ELSE texts[1] \o <<"\n">> \o Join(Tail(texts))

\* Mutant: the role of the client message is handed on as it is.
ChatRoleOfUnchanged(role) == role

\* message.role === 'assistant' ? 'assistant' : 'user'
ChatRoleOf(role) == IF role = "assistant" THEN "assistant" ELSE "user"

\* The switch over the blocks of one message: what each list collects.
ChatTextContents(blocks) ==
    LET texts == SelectSeq(blocks, LAMBDA content : content.type = "text")
    IN  [i \in 1..Len(texts) |-> texts[i].text]

ChatToolCalls(blocks) ==
    LET uses == SelectSeq(blocks, LAMBDA content : content.type = "tool_use")
    IN  [i \in 1..Len(uses) |->
            [id |-> uses[i].id, name |-> uses[i].name,
             arguments |-> JSONStringify(uses[i].input)]]

ChatToolResults(blocks) ==
    LET results == SelectSeq(blocks, LAMBDA content : content.type = "tool_result")
    IN  [i \in 1..Len(results) |->
            [tool_call_id |-> results[i].id,
             content |-> IF results[i].isString THEN results[i].text
                         ELSE JSONStringify(results[i].input)]]

\* The consolidated message of the texts and tool calls of one message,
\* pushed when there is either.
ChatContentMessage(role, textContents, toolCalls) ==
    IF Len(textContents) > 0 \/ Len(toolCalls) > 0
    THEN <<OpenAIMessage(ChatRoleOf(role),
                         IF Len(textContents) > 0 THEN Join(textContents)
                         ELSE <<>>,
                         Len(textContents) = 0,
                         toolCalls, "")>>
    ELSE <<>>

\* The role "tool" messages of the tool results of one message.
ChatToolMessages(toolResults) ==
    [i \in 1..Len(toolResults) |->
        OpenAIMessage("tool", toolResults[i].content, FALSE, <<>>,
                      toolResults[i].tool_call_id)]

\* The body of the loop of convertMessages: what one client message pushes.
ChatConvertMessage(message) ==
    IF message.isString
    THEN <<OpenAIMessage(ChatRoleOf(message.role), message.text, FALSE, <<>>, "")>>
    ELSE ChatContentMessage(message.role, ChatTextContents(message.blocks),
                            ChatToolCalls(message.blocks))
             \o ChatToolMessages(ChatToolResults(message.blocks))

\* convertMessages of the chat-completions dialect.
RECURSIVE ChatConvertMessages(_)
ChatConvertMessages(claudeMessages) ==
    IF claudeMessages = <<>> THEN <<>>
    ELSE ChatConvertMessage(Head(claudeMessages))
             \o ChatConvertMessages(Tail(claudeMessages))

\* The body of the loop of convertMessages of the responses dialect.
RespConvertMessage(message) ==
    IF message.isString
    THEN <<OpenAIMessage(IF message.role = "assistant" THEN "assistant" ELSE "user",
                         message.text, FALSE, <<>>, "")>>
    ELSE LET texts == SelectSeq(message.blocks, LAMBDA c : c.type = "text")
             uses == SelectSeq(message.blocks, LAMBDA c : c.type = "tool_use")
             results == SelectSeq(message.blocks, LAMBDA c : c.type = "tool_result")
             toolCalls == [i \in 1..Len(uses) |->
                              [id |-> uses[i].id, name |-> uses[i].name,
                               arguments |-> JSONStringify(uses[i].input)]]
         IN  (IF Len(texts) > 0 \/ Len(uses) > 0
              THEN <<OpenAIMessage(
                         IF message.role = "assistant" THEN "assistant" ELSE "user",
                         Join([i \in 1..Len(texts) |-> texts[i].text]),
                         Len(texts) = 0, toolCalls, "")>>
              ELSE <<>>)
             \o [i \in 1..Len(results) |->
                    OpenAIMessage("tool",
                                  IF results[i].isString THEN results[i].text
                                  ELSE JSONStringify(results[i].input),
                                  FALSE, <<>>, results[i].id)]

\* convertMessages of the responses dialect.
RECURSIVE RespConvertMessages(_)
RespConvertMessages(claudeMessages) ==
    IF claudeMessages = <<>> THEN <<>>
    ELSE RespConvertMessage(Head(claudeMessages))
             \o RespConvertMessages(Tail(claudeMessages))

\* A client request.  system is "" when the request has none; tools is the
\* list of the names of the declared tools.
ClaudeRequest(model, system, messages, max_tokens, temperature, stream, tools) ==
    [model |-> model, system |-> system, messages |-> messages,
     max_tokens |-> max_tokens, temperature |-> temperature,
     stream |-> stream, tools |-> tools]

\* A backend request of either dialect: the message list is messages in the
\* chat-completions dialect and input in the responses dialect; a field the
\* request does not carry is << >>, "", FALSE or Undefined.
ProviderRequest(model, messages, input, stream, tools, tool_choice, temperature, max_completion_tokens, reasoning_effort, include_usage) ==
    [model |-> model, messages |-> messages, input |-> input,
     stream |-> stream, tools |-> tools, tool_choice |-> tool_choice,
     temperature |-> temperature,
     max_completion_tokens |-> max_completion_tokens,
     reasoning_effort |-> reasoning_effort, include_usage |-> include_usage]

\* claudeRequest.tools.map(...): the declarations handed to the backend.
MapTools(tools) ==
    [i \in 1..Len(tools) |->
        [type |-> "function", name |-> tools[i], strict |-> TRUE]]

\* claudeRequest.model.includes(part); a model name is a sequence of parts.
ModelIncludes(model, part) == \E i \in 1..Len(model) : model[i] = part

\* convertToOpenAIRequestBody
ConvertToOpenAIRequestBody(claudeRequest) ==
    ProviderRequest(claudeRequest.model,
                    ChatConvertMessages(claudeRequest.messages),
                    <<>>,
                    claudeRequest.stream,
                    MapTools(claudeRequest.tools),
                    IF Len(claudeRequest.tools) > 0 THEN "auto" ELSE "",
                    claudeRequest.temperature,
                    claudeRequest.max_tokens,
                    "", FALSE)

\* convertToResponsesRequestBody
ConvertToResponsesRequestBody(claudeRequest) ==
    ProviderRequest(claudeRequest.model,
                    <<>>,
                    RespConvertMessages(claudeRequest.messages),
                    claudeRequest.stream,
                    MapTools(claudeRequest.tools),
                    IF Len(claudeRequest.tools) > 0 THEN "auto" ELSE "",
                    claudeRequest.temperature,
                    claudeRequest.max_tokens,
                    IF \/ ModelIncludes(claudeRequest.model, "o1")
                       \/ ModelIncludes(claudeRequest.model, "o3")
                       \/ ModelIncludes(claudeRequest.model, "gpt-5")
                    THEN "medium" ELSE "",
                    claudeRequest.stream)

\* The body of the backend request the adapter of dialect d builds.
RequestBody(d, claudeRequest) ==
    IF d = "chat" THEN ConvertToOpenAIRequestBody(claudeRequest)
    ELSE ConvertToResponsesRequestBody(claudeRequest)

\* The message list of a backend request of dialect d.
MessageList(d, providerRequest) ==
    IF d = "chat" THEN providerRequest.messages ELSE providerRequest.input

(***************************************************************************)
(* Inputs: the upstream records and the backend responses of the model.    *)
(***************************************************************************)
Hello == <<"Hello">>
World == <<" world">>

ArgsOpenA == <<"{", QT, "a", QT, ":", "1">>
ArgsClose == <<"}">>
ArgsOpen == <<"{">>
ArgsObject == <<"{", "}">>
ArgsOne == <<"1">>

BadRecord == Record(FALSE, TRUE, Hello, <<>>)
NoChoices == Record(TRUE, FALSE, <<>>, <<>>)

\* The records a backend may send on one stream.
Records ==
    { BadRecord,
      NoChoices,
      Delta(Hello, <<>>),
      Delta(World, <<>>),
      Delta(<<>>, <<Frag(0, "call_1", "f", <<>>)>>),
      Delta(<<>>, <<Frag(0, "", "", ArgsOpenA)>>),
      Delta(<<>>, <<Frag(0, "", "", ArgsClose)>>),
      Delta(<<>>, <<Frag(0, "", "", ArgsOne)>>),
      Delta(<<>>, <<Frag(0, "call_1", "f", ArgsObject)>>),
      Delta(<<>>, <<Frag(NoIndex, "", "f", ArgsOne)>>),
      Delta(<<>>, <<Frag(1, "call_2", "g", ArgsOpen)>>),
      Delta(<<>>, <<Frag(0, "", "", ArgsClose), Frag(1, "", "", ArgsClose)>>),
      Delta(Hello, <<Frag(1, "call_2", "g", ArgsObject)>>) }

\* The records of the runs with two responses in flight.
FewRecords ==
    { Delta(Hello, <<>>),
      Delta(<<>>, <<Frag(0, "call_1", "f", ArgsOpen)>>),
      Delta(<<>>, <<Frag(0, "", "", ArgsClose)>>) }

\* The records of the runs about the slots of interleaved tool calls.
SlotRecords ==
    { BadRecord,
      NoChoices,
      Delta(Hello, <<>>),
      Delta(<<>>, <<Frag(0, "call_1", "f", <<>>)>>),
      Delta(<<>>, <<Frag(NoIndex, "", "f", ArgsOne)>>),
      Delta(<<>>, <<Frag(1, "call_2", "g", ArgsOpen)>>),
      Delta(<<>>, <<Frag(0, "", "", ArgsClose), Frag(1, "", "", ArgsClose)>>),
      Delta(Hello, <<Frag(1, "call_2", "g", ArgsObject)>>) }

Upstream(u) ==
    IF u = "all" THEN Records
    ELSE IF u = "slots" THEN SlotRecords
    ELSE FewRecords

EventStream == <<"text/event-stream">>
EventStreamUtf8 == <<"text/event-stream", "; charset=utf-8">>
ApplicationJson == <<"application/json">>

\* A parsed body: the fields the mappers read, and the error text of an
\* error body.  A field the body does not carry reads as << >> or "".
Body(choices, output, usage, error) ==
    [choices |-> choices, output |-> output, usage |-> usage, error |-> error]

NoBody == Body(<<>>, <<>>, [present |-> FALSE], "")

ErrorBody == Body(<<>>, <<>>, [present |-> FALSE], "rate limited")

SomeUsage == [present |-> TRUE, prompt_tokens |-> 7, completion_tokens |-> 5]

Choice(content, has_tool_calls, tool_calls, finish_reason) ==
    [message |-> [content |-> content, has_tool_calls |-> has_tool_calls,
                  tool_calls |-> tool_calls],
     finish_reason |-> finish_reason]

ToolCall(id, name, arguments) ==
    [id |-> id, name |-> name, arguments |-> arguments]

ChatBody(choices, usage) == Body(choices, <<>>, usage, "")

Item(type, content, call_id, name, arguments) ==
    [type |-> type, content |-> content, call_id |-> call_id,
     name |-> name, arguments |-> arguments]

RespBody(output, usage) == Body(<<>>, output, usage, "")

Bodies ==
    { NoBody,
      ChatBody(<<Choice(Hello, FALSE, <<>>, "stop")>>, SomeUsage),
      ChatBody(<<Choice(Hello, FALSE, <<>>, "length")>>, [present |-> FALSE]),
      ChatBody(<<Choice(<<>>, TRUE,
                        <<ToolCall("call_1", "f", ArgsOpenA \o ArgsClose)>>,
                        "tool_calls")>>, SomeUsage),
      ChatBody(<<Choice(Hello, TRUE, <<ToolCall("call_1", "f", ArgsOpen)>>,
                        "tool_calls")>>, [present |-> FALSE]),
      ChatBody(<<Choice(Hello, TRUE, <<>>, "stop")>>, [present |-> FALSE]),
      RespBody(<<Item("text", Hello, "", "", <<>>)>>, SomeUsage),
      RespBody(<<Item("text", Hello, "", "", <<>>),
                 Item("function_call", <<>>, "call_1", "f", ArgsObject)>>,
               [present |-> FALSE]),
      RespBody(<<Item("function_call", <<>>, "", "", <<>>)>>, [present |-> FALSE]),
      RespBody(<<Item("function_call", <<>>, "call_1", "f", ArgsOpen)>>,
               [present |-> FALSE]),
      RespBody(<<Item("reasoning", <<>>, "", "", <<>>)>>, [present |-> FALSE]) }

\* What the backend may answer.  The body of a streamed answer arrives record
\* by record (Feed); NoBody stands for it here.
BackendResponses ==
    { Response(429, ApplicationJson, ErrorBody),
      Response(500, EventStream, ErrorBody),
      Response(200, EventStreamUtf8, NoBody) }
    \cup { Response(200, ApplicationJson, b) : b \in Bodies }
    \cup { Response(201, <<>>, NoBody) }

\* The value {"a":1}.
InputA == << [k |-> <<QT, "a", QT>>, v |-> <<"1">>] >>

\* The messages a client request may hold.
ClientMessages ==
    { StringMessage("user", Hello),
      StringMessage("assistant", World),
      StringMessage("tool", Hello),
      StringMessage("tools", Hello),
      StringMessage("narrator", World),
      BlockMessage("assistant", <<TextBlock(Hello), ToolUseBlock("call_1", "f", InputA)>>),
      BlockMessage("user", <<ToolResultBlock("call_1", World), TextBlock(Hello)>>),
      BlockMessage("user", <<ToolResultBlock("call_1", World)>>),
      BlockMessage("tools", <<TextBlock(Hello), TextBlock(World)>>),
      BlockMessage("assistant", <<ToolUseBlock("call_1", "f", <<>>),
                                  ToolResultData("call_0", InputA),
                                  ToolUseBlock("call_2", "g", InputA),
                                  ToolResultBlock("call_0", Hello)>>),
      BlockMessage("narrator", <<>>) }

MessageLists == UNION { [1..n -> ClientMessages] : n \in 0..MaxMessages }

\* The requests a client may send.
ClientRequests ==
    { ClaudeRequest(<<"gpt-4o">>, system, messages, Undefined, Undefined, FALSE, <<>>) :
          system \in {"", "A"}, messages \in MessageLists }
    \cup { ClaudeRequest(<<"gpt-5", "-mini">>, "A", <<StringMessage("user", Hello)>>,
                         100, 1, TRUE, <<"f", "g">>) }

(***************************************************************************)
(* State.                                                                  *)
(***************************************************************************)
\* The backend responses being converted, by the same adapter instance.
Responses == {1, 2}

VARIABLES
    dialect,              \* the adapter in use: "chat" or "responses"
    upstream,             \* the records the backend may send: "all", "slots", "few"
    pc,                   \* where the conversion of each response stands
    backend,              \* the backend response handed to convertToClaudeResponse
    out,                  \* the Response returned to the client
    fed,                  \* the records read from the upstream so far
    events,               \* the client events enqueued so far
    textBlockIndex,       \* the driver's text cursor
    toolUseBlockIndex,    \* the driver's tool-use cursor
    toolCallAccumulator,  \* the accumulator maps, one per convertStreamResponse
    merges,               \* history: the merges made so far, in order
    rpc,                  \* where the mapping of the client request stands
    claudeRequest,        \* the client request handed to convertToProviderRequest
    providerRequest,      \* the body of the backend request built from it
    rawBody,              \* the echo adapter's field this.rawBody
    epc,                  \* where each request through the echo adapter stands
    inbound,              \* the body each request came in with
    forwarded,            \* the backend request built for each request
    converted,            \* the forwarder's conversion of each backend response
    echoed                \* the Response the echo adapter returned

\* The state of convertToProviderRequest.
requestVars == <<rpc, claudeRequest, providerRequest>>

\* The state of the echo adapter and of the requests going through it.
echoVars == <<rawBody, epc, inbound, forwarded, converted, echoed>>

vars == <<dialect, upstream, pc, backend, out, fed, events, textBlockIndex,
          toolUseBlockIndex, toolCallAccumulator, merges, requestVars,
          echoVars>>

NoResponse == Response(0, <<>>, NoBody)

NoRequest == ClaudeRequest(<<>>, "", <<>>, Undefined, Undefined, FALSE, <<>>)

NoProviderRequest ==
    ProviderRequest(<<>>, <<>>, <<>>, FALSE, <<>>, "", Undefined, Undefined, "", FALSE)

\* Mutant: one accumulator map held by the adapter instance.
AccumulatorOfInstance(s) == 1

\* const toolCallAccumulator = new Map(): the map the conversion of response
\* s works on is its own.
AccumulatorOf(s) == s

\* let textBlockIndex = 0, toolUseBlockIndex = 0 in processProviderStream.
InitialCursor == 0

MessageStart == Event("message_start", NoIndex, "", "", "", <<>>)

MessageStop == Event("message_stop", NoIndex, "", "", "", <<>>)

\* The message_delta that may precede message_stop.
MessageDelta(stop_reason) ==
    Event("message_delta", NoIndex, stop_reason, "", "", <<>>)

\* The terminal reason the driver can tell from what the callback returned.
StreamStopReason(toolIndex) ==
    IF toolIndex > InitialCursor THEN "tool_use" ELSE "end_turn"

\* What processProviderStream enqueues before the first record.
StreamOpening == <<MessageStart>>

\* Mutant: the client stream is closed without a message_stop.
StreamClosingWithoutStop(withDelta, toolIndex) ==
    IF withDelta THEN <<MessageDelta(StreamStopReason(toolIndex))>> ELSE <<>>

\* What processProviderStream enqueues once the upstream has ended.
StreamClosing(withDelta, toolIndex) ==
    (IF withDelta THEN <<MessageDelta(StreamStopReason(toolIndex))>> ELSE <<>>)
        \o <<MessageStop>>

\* What the driver does with the outcome of one callback call: an exception
\* or a null costs the record only.
Forwarded(outcome) == IF outcome.tag = "ok" THEN outcome.events ELSE <<>>

\* The driver state st once the callback has returned outcome: the events
\* are enqueued and the cursor taken over unless the call threw or gave null.
Taken(st, outcome) ==
    [events |-> st.events \o Forwarded(outcome),
     textBlockIndex |-> IF outcome.tag = "ok" THEN outcome.textBlockIndex
                        ELSE st.textBlockIndex,
     toolUseBlockIndex |-> IF outcome.tag = "ok" THEN outcome.toolUseBlockIndex
                           ELSE st.toolUseBlockIndex,
     acc |-> outcome.acc,
     log |-> outcome.log]

\* The body of the driver's loop: one record through the callback of dialect
\* d, from the driver state st (its cursor, what it has enqueued, and the
\* accumulator the callback closes over).
DriverStep(d, st, rec) ==
    Taken(st, Decode(d, rec, st.textBlockIndex, st.toolUseBlockIndex, st.acc))

\* The driver run on the records h alone, from a fresh start.
RECURSIVE Replay(_, _, _)
Replay(d, st, h) ==
    IF h = <<>> THEN st
    ELSE Replay(d, DriverStep(d, st, Head(h)), Tail(h))

FreshStream ==
    [events |-> StreamOpening, textBlockIndex |-> InitialCursor,
     toolUseBlockIndex |-> InitialCursor, acc |-> <<>>, log |-> <<>>]

LongestArguments(acc) ==
    \A k \in DOMAIN acc : Len(acc[k].arguments) <= MaxArgLen

(***************************************************************************)
(* The echo adapter.  The text of a request body: defined is FALSE for the *)
(* undefined of a field never assigned; parses tells whether JSON.parse    *)
(* accepts the text, and request is then the client request it reads as.   *)
(* A text that does not parse is the empty text.                           *)
(***************************************************************************)
RawText(defined, parses, request) ==
    [defined |-> defined, parses |-> parses, request |-> request]

UndefinedText == RawText(FALSE, FALSE, NoRequest)

EmptyText == RawText(TRUE, FALSE, NoRequest)

\* The requests in flight through one echo adapter instance.
EchoRequests == {1, 2}

\* The bodies a request may come in with.
InboundBodies ==
    { EmptyText,
      RawText(TRUE, TRUE,
              ClaudeRequest(<<"gpt-4o">>, "", <<StringMessage("user", Hello)>>,
                            Undefined, Undefined, FALSE, <<>>)),
      RawText(TRUE, TRUE,
              ClaudeRequest(<<"gpt-4o">>, "A", <<StringMessage("user", World)>>,
                            100, Undefined, TRUE, <<>>)) }

\* What the backend answers to a forwarded request: the request asked for
\* no stream, the answer is not a stream.
EchoBackendResponses ==
    { Response(429, ApplicationJson, ErrorBody),
      Response(200, ApplicationJson,
               ChatBody(<<Choice(Hello, FALSE, <<>>, "stop")>>, SomeUsage)),
      Response(200, ApplicationJson,
               ChatBody(<<Choice(Hello, TRUE, <<ToolCall("call_1", "f", ArgsOpen)>>,
                                 "tool_calls")>>, [present |-> FALSE])),
      Response(200, ApplicationJson,
               RespBody(<<Item("text", World, "", "", <<>>)>>, SomeUsage)) }

\* { ...parsed, stream: false }
ForwardedBody(parsed) == [parsed EXCEPT !.stream = FALSE]

\* `${this.rawBody ?? ''}\n${separator}\n${convertedText}`
Combined(raw, convertedText) ==
    [rawBody |-> IF raw.defined THEN raw ELSE EmptyText,
     separator |-> 10,
     convertedText |-> convertedText]

\* The Response convertToClaudeResponse of the echo adapter returns.
EchoResponse(raw, convertedText) ==
    Response(200, ApplicationJson,
             Message(FALSE,
                     <<Block("text", Combined(raw, convertedText), "", "", <<>>)>>,
                     "end_turn", NoUsage))

InitCommon ==
    /\ dialect \in {"chat", "responses"}
    /\ backend = [s \in Responses |-> NoResponse]
    /\ out = [s \in Responses |-> NoResponse]
    /\ fed = [s \in Responses |-> <<>>]
    /\ events = [s \in Responses |-> <<>>]
    /\ textBlockIndex = [s \in Responses |-> InitialCursor]
    /\ toolUseBlockIndex = [s \in Responses |-> InitialCursor]
    /\ toolCallAccumulator = [s \in Responses |-> <<>>]
    /\ merges = [s \in Responses |-> <<>>]
    /\ rpc = "idle"
    /\ claudeRequest = NoRequest
    /\ providerRequest = NoProviderRequest
    /\ rawBody = UndefinedText
    /\ epc = [r \in EchoRequests |-> "new"]
    /\ inbound = [r \in EchoRequests |-> UndefinedText]
    /\ forwarded = [r \in EchoRequests |-> NoProviderRequest]
    /\ converted = [r \in EchoRequests |-> NoResponse]
    /\ echoed = [r \in EchoRequests |-> NoResponse]

\* One response in flight.
Init ==
    /\ InitCommon
    /\ upstream = "all"
    /\ pc = [s \in Responses |-> IF s = 1 THEN "idle" ELSE "absent"]

\* One response in flight, its records those of interleaved tool calls.
InitSlots ==
    /\ InitCommon
    /\ upstream = "slots"
    /\ pc = [s \in Responses |-> IF s = 1 THEN "idle" ELSE "absent"]

\* Two responses in flight at once.
InitTwo ==
    /\ InitCommon
    /\ upstream = "few"
    /\ pc = [s \in Responses |-> "idle"]

\* A client request on its way to the backend, no response yet.
InitRequest ==
    /\ InitCommon
    /\ upstream = "few"
    /\ pc = [s \in Responses |-> "absent"]

(***************************************************************************)
(* Actions.                                                                *)
(***************************************************************************)
\* convertToClaudeResponse on a response that is not ok: return it as it is.
ReturnUnchanged(s, resp) ==
    /\ pc[s] = "idle"
    /\ Route(dialect, resp) = "unchanged"
    /\ backend' = [backend EXCEPT ![s] = resp]
    /\ out' = [out EXCEPT ![s] = resp]
    /\ pc' = [pc EXCEPT ![s] = "unchanged"]
    /\ UNCHANGED <<dialect, upstream, fed, events, textBlockIndex,
                   toolUseBlockIndex, toolCallAccumulator, merges,
                   requestVars, echoVars>>

\* convertNormalResponse: map the JSON body, keep the status.
ConvertNormalResponse(s, resp) ==
    /\ pc[s] = "idle"
    /\ Route(dialect, resp) = "normal"
    /\ backend' = [backend EXCEPT ![s] = resp]
    /\ LET message == NormalResponse(dialect, resp.body)
       IN  IF message.threw
           THEN /\ pc' = [pc EXCEPT ![s] = "rejected"]
                /\ out' = out
           ELSE /\ pc' = [pc EXCEPT ![s] = "mapped"]
                /\ out' = [out EXCEPT ![s] =
                              Response(resp.status, ApplicationJson, message)]
    /\ UNCHANGED <<dialect, upstream, fed, events, textBlockIndex,
                   toolUseBlockIndex, toolCallAccumulator, merges,
                   requestVars, echoVars>>

\* convertStreamResponse: a fresh accumulator, and the driver started on the
\* upstream body with its cursor at zero.
ConvertStreamResponse(s, resp) ==
    /\ pc[s] = "idle"
    /\ Route(dialect, resp) = "stream"
    /\ backend' = [backend EXCEPT ![s] = resp]
    /\ out' = [out EXCEPT ![s] = Response(resp.status, EventStream, NoBody)]
    /\ pc' = [pc EXCEPT ![s] = "streaming"]
    /\ toolCallAccumulator' =
           [toolCallAccumulator EXCEPT ![AccumulatorOf(s)] = <<>>]
    /\ textBlockIndex' = [textBlockIndex EXCEPT ![s] = InitialCursor]
    /\ toolUseBlockIndex' = [toolUseBlockIndex EXCEPT ![s] = InitialCursor]
    /\ events' = [events EXCEPT ![s] = StreamOpening]
    /\ UNCHANGED <<dialect, upstream, fed, merges,
                   requestVars, echoVars>>

\* The driver's state after one turn of its loop, stored for response s;
\* rec joins the history of the records read, the merges of the turn the
\* history of the merges.
Turn(s, rec, st) ==
    /\ LongestArguments(st.acc)
    /\ fed' = [fed EXCEPT ![s] = Append(@, rec)]
    /\ toolCallAccumulator' =
           [toolCallAccumulator EXCEPT ![AccumulatorOf(s)] = st.acc]
    /\ events' = [events EXCEPT ![s] = st.events]
    /\ textBlockIndex' = [textBlockIndex EXCEPT ![s] = st.textBlockIndex]
    /\ toolUseBlockIndex' =
           [toolUseBlockIndex EXCEPT ![s] = st.toolUseBlockIndex]
    /\ merges' = [merges EXCEPT ![s] =
           @ \o [i \in 1..Len(st.log) |->
                    [rec |-> Len(fed[s]) + 1, slot |-> st.log[i].slot,
                     fresh |-> st.log[i].fresh,
                     entry |-> st.log[i].entry,
                     emitted |-> st.log[i].emitted,
                     index |-> st.log[i].index]]]

\* The driver reads one record and calls the decode callback on it.
Feed(s, rec) ==
    /\ pc[s] = "streaming"
    /\ Len(fed[s]) < MaxRecords
    /\ Turn(s, rec,
            DriverStep(dialect,
                       [events |-> events[s],
                        textBlockIndex |-> textBlockIndex[s],
                        toolUseBlockIndex |-> toolUseBlockIndex[s],
                        acc |-> toolCallAccumulator[AccumulatorOf(s)]],
                       rec))
    /\ UNCHANGED <<dialect, upstream, pc, backend, out,
                   requestVars, echoVars>>

\* The upstream ends: the driver closes the client stream.
EndOfStream(s, withDelta) ==
    /\ pc[s] = "streaming"
    /\ events' = [events EXCEPT ![s] =
                     @ \o StreamClosing(withDelta, toolUseBlockIndex[s])]
    /\ pc' = [pc EXCEPT ![s] = "done"]
    /\ UNCHANGED <<dialect, upstream, backend, out, fed, textBlockIndex,
                   toolUseBlockIndex, toolCallAccumulator, merges,
                   requestVars, echoVars>>

Next ==
    \E s \in Responses :
        \/ \E resp \in BackendResponses : ReturnUnchanged(s, resp)
        \/ \E resp \in BackendResponses : ConvertNormalResponse(s, resp)
        \/ \E resp \in BackendResponses : ConvertStreamResponse(s, resp)
        \/ \E rec \in Upstream(upstream) : Feed(s, rec)
        \/ \E withDelta \in BOOLEAN : EndOfStream(s, withDelta)

\* convertToProviderRequest: the body of the backend request of a client
\* request, built by the adapter in use.
ConvertToProviderRequest(request) ==
    /\ rpc = "idle"
    /\ claudeRequest' = request
    /\ providerRequest' = RequestBody(dialect, request)
    /\ rpc' = "sent"
    /\ UNCHANGED <<dialect, upstream, pc, backend, out, fed, events,
                   textBlockIndex, toolUseBlockIndex, toolCallAccumulator,
                   merges, echoVars>>

NextRequest ==
    \E request \in ClientRequests : ConvertToProviderRequest(request)

\* convertToProviderRequest of the echo adapter, from the moment the body
\* text has arrived: the field is assigned, the text parsed and the request
\* handed to the forwarder, which rejects a body that is not JSON.
EchoConvertToProviderRequest(r, body) ==
    /\ epc[r] = "new"
    /\ rawBody' = body
    /\ inbound' = [inbound EXCEPT ![r] = body]
    /\ IF body.parses
       THEN /\ forwarded' = [forwarded EXCEPT ![r] =
                                 RequestBody(dialect, ForwardedBody(body.request))]
            /\ epc' = [epc EXCEPT ![r] = "sent"]
       ELSE /\ forwarded' = forwarded
            /\ epc' = [epc EXCEPT ![r] = "rejected"]
    /\ UNCHANGED <<dialect, upstream, pc, backend, out, fed, events,
                   textBlockIndex, toolUseBlockIndex, toolCallAccumulator,
                   merges, requestVars, converted, echoed>>

\* convertToClaudeResponse of the echo adapter, up to the text of the
\* forwarder's conversion: a fresh forwarder converts the backend response.
EchoForwarderConverts(r, resp) ==
    /\ epc[r] = "sent"
    /\ Route(dialect, resp) # "stream"
    /\ LET message == NormalResponse(dialect, resp.body)
       IN  IF Route(dialect, resp) = "unchanged"
           THEN /\ converted' = [converted EXCEPT ![r] = resp]
                /\ epc' = [epc EXCEPT ![r] = "converted"]
           ELSE IF message.threw
           THEN /\ converted' = converted
                /\ epc' = [epc EXCEPT ![r] = "rejected"]
           ELSE /\ converted' = [converted EXCEPT ![r] =
                                     Response(resp.status, ApplicationJson, message)]
                /\ epc' = [epc EXCEPT ![r] = "converted"]
    /\ UNCHANGED <<dialect, upstream, pc, backend, out, fed, events,
                   textBlockIndex, toolUseBlockIndex, toolCallAccumulator,
                   merges, requestVars, rawBody, inbound, forwarded, echoed>>

\* The rest of convertToClaudeResponse: the field is read and the echo built.
EchoCombine(r) ==
    /\ epc[r] = "converted"
    /\ echoed' = [echoed EXCEPT ![r] = EchoResponse(rawBody, converted[r])]
    /\ epc' = [epc EXCEPT ![r] = "done"]
    /\ UNCHANGED <<dialect, upstream, pc, backend, out, fed, events,
                   textBlockIndex, toolUseBlockIndex, toolCallAccumulator,
                   merges, requestVars, rawBody, inbound, forwarded, converted>>

NextEcho ==
    \/ \E r \in EchoRequests, body \in InboundBodies :
           EchoConvertToProviderRequest(r, body)
    \/ \E r \in EchoRequests, resp \in EchoBackendResponses :
           EchoForwarderConverts(r, resp)
    \/ \E r \in EchoRequests : EchoCombine(r)

Spec == Init /\ [][Next]_vars

\* One response whose records carry the fragments of two interleaved calls.
SpecSlots == InitSlots /\ [][Next]_vars

\* The request mapper on its own: it shares no state with the conversion of
\* the responses.
SpecRequest == InitRequest /\ [][NextRequest]_vars

\* Two requests through one instance of the echo adapter.
SpecEcho == InitRequest /\ [][NextEcho]_vars

SpecTwo == InitTwo /\ [][Next]_vars

(***************************************************************************)
(* Reading the client stream and the record history.                       *)
(***************************************************************************)
Streamed(s) == pc[s] \in {"streaming", "done"}

\* The positions of the content_block_start events of evs, ascending.
RECURSIVE StartsFrom(_, _)
StartsFrom(evs, i) ==
    IF i > Len(evs) THEN <<>>
    ELSE (IF evs[i].type = "content_block_start" THEN <<i>> ELSE <<>>)
             \o StartsFrom(evs, i + 1)

Starts(evs) == StartsFrom(evs, 1)

\* The payload of the delta that follows the start at position i.
DeltaAfter(evs, i) ==
    IF /\ i + 1 <= Len(evs)
       /\ evs[i + 1].type = "content_block_delta"
       /\ evs[i + 1].index = evs[i].index
    THEN evs[i + 1].payload
    ELSE <<>>

\* The content blocks a client assembles from evs, in emission order.
BlocksOf(evs) ==
    LET st == Starts(evs)
    IN  [n \in 1..Len(st) |->
            IF evs[st[n]].block = "text"
            THEN Block("text", DeltaAfter(evs, st[n]), "", "", <<>>)
            ELSE Block("tool_use", <<>>, evs[st[n]].id, evs[st[n]].name,
                       DeltaAfter(evs, st[n]))]

ToolBlocksOf(evs) == SelectSeq(BlocksOf(evs), LAMBDA b : b.type = "tool_use")

TextBlocksOf(evs) == SelectSeq(BlocksOf(evs), LAMBDA b : b.type = "text")

\* The block indices of the starts of evs, in emission order.
StartIndices(evs) ==
    LET st == Starts(evs) IN [n \in 1..Len(st) |-> evs[st[n]].index]

StartKinds(evs) ==
    LET st == Starts(evs) IN [n \in 1..Len(st) |-> evs[st[n]].block]

SlotOf(toolCall) == IF toolCall.index = NoIndex THEN 0 ELSE toolCall.index

\* h delivers one tool call and nothing else: one fragment per record, all of
\* one slot, the name in the first record only, argument text in the others.
IsSplit(h) ==
    /\ Len(h) >= 1
    /\ \A i \in 1..Len(h) :
        /\ h[i].parses /\ h[i].hasChoices
        /\ h[i].content = <<>>
        /\ Len(h[i].tool_calls) = 1
        /\ SlotOf(h[i].tool_calls[1]) = SlotOf(h[1].tool_calls[1])
        /\ (i = 1) => h[i].tool_calls[1].name # ""
        /\ (i > 1) => /\ h[i].tool_calls[1].name = ""
                      /\ h[i].tool_calls[1].arguments # <<>>

\* The argument text of the first j fragments of a split.
RECURSIVE SplitText(_, _)
SplitText(h, j) ==
    IF j = 0 THEN <<>>
    ELSE SplitText(h, j - 1) \o h[j].tool_calls[1].arguments

\* The fragments after which the text delivered so far parses.
ParsePoints(h) == {j \in 1..Len(h) : JSONParse(SplitText(h, j)).ok}

Least(S) == CHOOSE j \in S : \A k \in S : j <= k

(***************************************************************************)
(* C1 (as stated): whenever the records so far are a split of one tool     *)
(* call whose whole argument text parses, exactly one tool-use block has   *)
(* been emitted, it was emitted at the last fragment, and its input is the *)
(* parse of the concatenation of all the fragments.                        *)
(***************************************************************************)
C1_Original ==
    \A s \in Responses :
        (/\ Streamed(s)
         /\ IsSplit(fed[s])
         /\ JSONParse(SplitText(fed[s], Len(fed[s]))).ok)
        => LET emitted == SelectSeq(merges[s], LAMBDA m : m.emitted)
               tools == ToolBlocksOf(events[s])
           IN  /\ Len(tools) = 1
               /\ Len(emitted) = 1
               /\ emitted[1].rec = Len(fed[s])
               /\ tools[1].input = JSONParse(SplitText(fed[s], Len(fed[s]))).txt

(***************************************************************************)
(* C1 (amended): for every split of one tool call into fragments (name in  *)
(* the first), no tool-use block is emitted while the text delivered so    *)
(* far does not parse; from the first fragment after which it parses there *)
(* is exactly one tool-use block, carrying the call's name and the parse   *)
(* of the text delivered up to that fragment.  When no shorter run of      *)
(* fragments parses, that fragment is the last one and the input is the    *)
(* parse of the whole concatenation.  The invariant holds in the state     *)
(* after each fragment, so it fixes the fragment at which the block        *)
(* appears.                                                                *)
(***************************************************************************)
C1_Reassembly ==
    \A s \in Responses :
        (Streamed(s) /\ IsSplit(fed[s]))
        => LET h == fed[s]
               tools == ToolBlocksOf(events[s])
           IN  IF ParsePoints(h) = {}
               THEN tools = <<>>
               ELSE LET first == Least(ParsePoints(h))
                    IN  /\ Len(tools) = 1
                        /\ tools[1].name = h[1].tool_calls[1].name
                        /\ tools[1].input = JSONParse(SplitText(h, first)).txt
                        /\ (first = Len(h)) =>
                               tools[1].input = JSONParse(SplitText(h, Len(h))).txt

\* The split {name f}, {"a":1, } has been fed and its one block emitted.
C1_Witness ==
    \E s \in Responses :
        /\ Streamed(s)
        /\ IsSplit(fed[s])
        /\ Len(fed[s]) = 3
        /\ fed[s][1].tool_calls[1].arguments = <<>>
        /\ fed[s][2].tool_calls[1].arguments = ArgsOpenA
        /\ fed[s][3].tool_calls[1].arguments = ArgsClose
        /\ ParsePoints(fed[s]) = {3}
        /\ Len(ToolBlocksOf(events[s])) = 1
        /\ ToolBlocksOf(events[s])[1].input = ArgsOpenA \o ArgsClose

(***************************************************************************)
(* C2: in every streamed response the indices of the text blocks and the   *)
(* indices of the tool-use blocks each count up from the initial cursor in *)
(* emission order (strictly increasing, none used twice by its counter),   *)
(* the driver's cursors stand one past the last index handed out, and each *)
(* content_block_start is followed by its delta and by exactly one         *)
(* content_block_stop of the same index, no stop belonging to no start.    *)
(***************************************************************************)
KindIndices(evs, kind) ==
    LET st == SelectSeq(Starts(evs), LAMBDA i : evs[i].block = kind)
    IN  [n \in 1..Len(st) |-> evs[st[n]].index]

CountsUp(indices) ==
    \A n \in 1..Len(indices) : indices[n] = InitialCursor + n - 1

IsTextToolText(h) ==
    /\ Len(h) = 3
    /\ \A i \in 1..3 : h[i].parses /\ h[i].hasChoices
    /\ h[1].content # <<>> /\ h[1].tool_calls = <<>>
    /\ h[2].content = <<>> /\ Len(h[2].tool_calls) = 1
    /\ h[2].tool_calls[1].name # ""
    /\ JSONParse(h[2].tool_calls[1].arguments).ok
    /\ h[3].content # <<>> /\ h[3].tool_calls = <<>>

C3_Original ==
    \A s \in Responses :
        (Streamed(s) /\ IsTextToolText(fed[s]))
        => /\ StartKinds(events[s]) = <<"text", "tool_use", "text">>
           /\ StartIndices(events[s]) = <<0, 1, 2>>

(***************************************************************************)
(* C4 (as stated): when the stream has ended, the blocks the client got    *)
(* (types, order, text, name, input) and the terminal reason are those the *)
(* non-stream mapper gives for the same backend response as one document.  *)
(* The stream is taken in the chat-completions dialect, text before tool   *)
(* calls, every tool call whole in one fragment; the one document carries  *)
(* the concatenated text and the same tool calls.                          *)
(***************************************************************************)
IsFragmentation(h) ==
    /\ \A i \in 1..Len(h) :
        /\ h[i].parses /\ h[i].hasChoices
        /\ \A c \in 1..Len(h[i].tool_calls) :
            /\ h[i].tool_calls[c].name # ""
            /\ JSONParse(h[i].tool_calls[c].arguments).ok
    /\ \A i, j \in 1..Len(h) :
        (i < j /\ h[i].tool_calls # <<>>) => h[j].content = <<>>

RECURSIVE WholeText(_)
WholeText(h) ==
    IF h = <<>> THEN <<>> ELSE Head(h).content \o WholeText(Tail(h))

RECURSIVE WholeToolCalls(_)
WholeToolCalls(h) ==
    IF h = <<>> THEN <<>>
    ELSE [c \in 1..Len(Head(h).tool_calls) |->
             ToolCall(Head(h).tool_calls[c].id, Head(h).tool_calls[c].name,
                      Head(h).tool_calls[c].arguments)]
             \o WholeToolCalls(Tail(h))

\* The single JSON document equivalent to the fragments h.
OneDocument(h) ==
    LET calls == WholeToolCalls(h)
    IN  ChatBody(<<Choice(WholeText(h), calls # <<>>, calls,
                          IF calls # <<>> THEN "tool_calls" ELSE "stop")>>,
                 [present |-> FALSE])

\* A block without its id (the claim compares type, text, name and input).
Unidentified(blocks) ==
    [n \in 1..Len(blocks) |->
        Block(blocks[n].type, blocks[n].text, "", blocks[n].name, blocks[n].input)]

\* The reasons announced by the message_delta events of evs.
AnnouncedReasons(evs) ==
    {evs[i].block : i \in {j \in 1..Len(evs) : evs[j].type = "message_delta"}}

C4_Original ==
    \A s \in Responses :
        (pc[s] = "done" /\ dialect = "chat" /\ IsFragmentation(fed[s]))
        => LET whole == ChatNormalResponse(OneDocument(fed[s]))
           IN  /\ Unidentified(BlocksOf(events[s])) = Unidentified(whole.content)
               /\ AnnouncedReasons(events[s]) \subseteq {whole.stop_reason}

(***************************************************************************)
(* C5: a backend response that is not ok comes back as it was handed in,   *)
(* status and body, in both dialects; neither the stream decoder nor the   *)
(* non-stream mapper has run on it.                                        *)
(***************************************************************************)
C5_ErrorPassthrough ==
    \A s \in Responses :
        (pc[s] \notin {"idle", "absent"} /\ ~Ok(backend[s]))
        => /\ pc[s] = "unchanged"
           /\ out[s] = backend[s]
           /\ out[s].status = backend[s].status
           /\ out[s].body = backend[s].body
           /\ fed[s] = <<>>
           /\ events[s] = <<>>

\* The 429 of the spec has been returned untouched by the responses adapter.
C5_Witness ==
    \E s \in Responses :
        /\ pc[s] = "unchanged"
        /\ backend[s] = Response(429, ApplicationJson, ErrorBody)
        /\ out[s] = Response(429, ApplicationJson, ErrorBody)

(***************************************************************************)
(* C6 (as stated): the content_block_start of every tool-use block carries *)
(* the id and the name its accumulator entry held when it was emitted      *)
(* (taken for the calls whose id had arrived).                             *)
(***************************************************************************)
C6_Original ==
    \A s \in Responses :
        \A i \in 1..Len(merges[s]) :
            (merges[s][i].emitted /\ merges[s][i].entry.id # "")
            => \E p \in 1..Len(events[s]) :
                /\ events[s][p].type = "content_block_start"
                /\ events[s][p].block = "tool_use"
                /\ events[s][p].index = merges[s][i].index
                /\ events[s][p].name = merges[s][i].entry.name
                /\ events[s][p].id = merges[s][i].entry.id

(***************************************************************************)
(* C7: a record whose payload does not parse costs that record only: the   *)
(* content events, both cursors and the accumulator are, after any         *)
(* records, what they are when the records that do not parse are left out  *)
(* of the stream, and the response is still streaming or cleanly ended.    *)
(***************************************************************************)
ContentEvents(evs) ==
    SelectSeq(evs, LAMBDA e : e.type \in {"content_block_start",
                                          "content_block_delta",
                                          "content_block_stop"})

C7_BadRecordSkipped ==
    \A s \in Responses :
        (fed[s] # <<>>)
        => LET parsing == SelectSeq(fed[s], LAMBDA r : r.parses)
               clean == Replay(dialect, FreshStream, parsing)
           IN  /\ Streamed(s)
               /\ ContentEvents(events[s]) = ContentEvents(clean.events)
               /\ textBlockIndex[s] = clean.textBlockIndex
               /\ toolUseBlockIndex[s] = clean.toolUseBlockIndex
               /\ toolCallAccumulator[AccumulatorOf(s)] = clean.acc

\* A record that does not parse came between two text records, both decoded.
C7_Witness ==
    \E s \in Responses :
        /\ Len(fed[s]) = 3
        /\ fed[s][1] = Delta(Hello, <<>>)
        /\ ~fed[s][2].parses
        /\ fed[s][3] = Delta(World, <<>>)
        /\ Len(TextBlocksOf(events[s])) = 2
        /\ TextBlocksOf(events[s])[2].text = World

(***************************************************************************)
(* C8: when the stream has ended with an entry still in the accumulator,   *)
(* no fragment of that call, from the one that created the entry on, has   *)
(* emitted a block; the end of the stream adds no block (every tool-use    *)
(* block comes from a merge that completed) and no event other than the    *)
(* closing message_delta and message_stop.                                 *)
(***************************************************************************)
C8_PendingDropped ==
    \A s \in Responses :
        (pc[s] = "done")
        => LET acc == toolCallAccumulator[AccumulatorOf(s)]
               log == merges[s]
               evs == events[s]
           IN  /\ \A k \in DOMAIN acc :
                    \E i \in 1..Len(log) :
                        /\ log[i].slot = k
                        /\ log[i].fresh
                        /\ \A j \in i..Len(log) :
                               log[j].slot = k => ~log[j].emitted
               /\ Len(ToolBlocksOf(evs)) =
                      Len(SelectSeq(log, LAMBDA m : m.emitted))
               /\ \A p \in 1..Len(evs) :
                    evs[p].type \in {"message_start", "content_block_start",
                                     "content_block_delta", "content_block_stop",
                                     "message_delta", "message_stop"}
               /\ evs[Len(evs)] = MessageStop

\* The stream ended while the call f still waited for the end of {"a":1.
C8_Witness ==
    \E s \in Responses :
        /\ pc[s] = "done"
        /\ 0 \in DOMAIN toolCallAccumulator[AccumulatorOf(s)]
        /\ toolCallAccumulator[AccumulatorOf(s)][0].name = "f"
        /\ toolCallAccumulator[AccumulatorOf(s)][0].arguments = ArgsOpenA
        /\ ToolBlocksOf(events[s]) = <<>>

(***************************************************************************)
(* C9: a streamed response starts with its one message_start; while the    *)
(* upstream lasts the events after it are those of the callback, record by *)
(* record in arrival order, and no message_delta or message_stop; once the *)
(* upstream has ended they are followed by at most one message_delta and   *)
(* then by the one message_stop, the last event.                           *)
(***************************************************************************)
Count(evs, type) == Len(SelectSeq(evs, LAMBDA e : e.type = type))

C9_Envelope ==
    \A s \in Responses :
        Streamed(s)
        => LET evs == events[s]
               n == Len(evs)
               decoded == Replay(dialect, FreshStream, fed[s]).events
           IN  /\ n >= 1
               /\ evs[1] = MessageStart
               /\ Count(evs, "message_start") = 1
               /\ Count(decoded, "message_stop") = 0
               /\ Count(decoded, "message_delta") = 0
               /\ (pc[s] = "streaming") => evs = decoded
               /\ (pc[s] = "done") =>
                    /\ n >= 2
                    /\ evs[n] = MessageStop
                    /\ Count(evs, "message_stop") = 1
                    /\ \/ SubSeq(evs, 1, n - 1) = decoded
                       \/ /\ evs[n - 1].type = "message_delta"
                          /\ SubSeq(evs, 1, n - 2) = decoded

\* A stream of a text and a tool call has ended with message_delta, message_stop.
C9_Witness ==
    \E s \in Responses :
        /\ pc[s] = "done"
        /\ Len(fed[s]) = 2
        /\ Len(TextBlocksOf(events[s])) = 1
        /\ Len(ToolBlocksOf(events[s])) = 1
        /\ events[s][Len(events[s]) - 1] = MessageDelta("tool_use")
        /\ events[s][Len(events[s])] = MessageStop

(***************************************************************************)
(* C10 (two responses in flight): whatever the interleaving of the records *)
(* of the two streams, the content events, the block indices, the cursors  *)
(* and the accumulator of each response are those of that response decoded *)
(* alone.                                                                  *)
(***************************************************************************)
C10_Isolation ==
    \A s \in Responses :
        Streamed(s)
        => LET alone == Replay(dialect, FreshStream, fed[s])
           IN  /\ ContentEvents(events[s]) = ContentEvents(alone.events)
               /\ StartIndices(events[s]) = StartIndices(alone.events)
               /\ textBlockIndex[s] = alone.textBlockIndex
               /\ toolUseBlockIndex[s] = alone.toolUseBlockIndex
               /\ toolCallAccumulator[AccumulatorOf(s)] = alone.acc

\* Response 1 has completed its call while response 2, fed the closing brace
\* alone, holds it pending.
C10_Witness ==
    /\ pc[1] = "streaming"
    /\ pc[2] = "streaming"
    /\ Len(fed[1]) = 2
    /\ fed[2] = <<Delta(<<>>, <<Frag(0, "", "", ArgsClose)>>)>>
    /\ Len(ToolBlocksOf(events[1])) = 1
    /\ ToolBlocksOf(events[2]) = <<>>
    /\ 0 \in DOMAIN toolCallAccumulator[AccumulatorOf(2)]
    /\ 0 \notin DOMAIN toolCallAccumulator[AccumulatorOf(1)]

(***************************************************************************)
(* C11 (as stated): once a tool call has completed in a stream that has    *)
(* not ended, exactly one of the two dialects has put a message_delta with *)
(* stop_reason tool_use right after the block.                             *)
(***************************************************************************)
\* A message_delta announcing tool_use follows the stop of a block in evs.
EarlyToolUseDelta(evs) ==
    \E p \in 1..Len(evs) - 1 :
        /\ evs[p].type = "content_block_stop"
        /\ evs[p + 1].type = "message_delta"
        /\ evs[p + 1].block = "tool_use"

HasBlock(message, type) ==
    /\ ~message.isString
    /\ \E b \in 1..Len(message.blocks) : message.blocks[b].type = type

\* How many backend messages one client message stands for: one for a
\* string, else one for its texts and tool calls (if any) and one for each
\* tool result.
Pushed(message) ==
    IF message.isString THEN 1
    ELSE (IF HasBlock(message, "text") \/ HasBlock(message, "tool_use")
          THEN 1 ELSE 0)
         + Len(SelectSeq(message.blocks, LAMBDA c : c.type = "tool_result"))

RECURSIVE PushedBefore(_, _)
PushedBefore(messages, i) ==
    IF i <= 1 THEN 0
    ELSE PushedBefore(messages, i - 1) + Pushed(messages[i - 1])

\* The backend messages of list that stand for the i-th client message.
SegmentOf(list, messages, i) ==
    SubSeq(list, PushedBefore(messages, i) + 1,
           PushedBefore(messages, i) + Pushed(messages[i]))

(***************************************************************************)
(* C12 (as stated): in the backend message list, for every client message  *)
(* that holds tool results together with text or tool invocations, each    *)
(* role "tool" message of that client message comes before its             *)
(* consolidated content message.                                           *)
(***************************************************************************)
C12_Original ==
    (rpc = "sent")
    => LET list == MessageList(dialect, providerRequest)
           messages == claudeRequest.messages
       IN  \A i \in 1..Len(messages) :
               (/\ HasBlock(messages[i], "tool_result")
                /\ HasBlock(messages[i], "text") \/ HasBlock(messages[i], "tool_use"))
               => LET segment == SegmentOf(list, messages, i)
                  IN  \A a, b \in 1..Len(segment) :
                          (segment[a].role = "tool" /\ segment[b].role # "tool")
                          => a < b

(***************************************************************************)
(* C13 (as stated): when the client request has a system text, the backend *)
(* message list starts with one role "system" message carrying it, and the *)
(* mapped conversation messages follow; when it has none, the list holds   *)
(* no system message.                                                      *)
(***************************************************************************)
C13_Original ==
    (rpc = "sent")
    => LET list == MessageList(dialect, providerRequest)
           messages == claudeRequest.messages
       IN  IF claudeRequest.system # ""
           THEN /\ Len(list) = 1 + PushedBefore(messages, Len(messages) + 1)
                /\ list[1].role = "system"
                /\ list[1].content = <<claudeRequest.system>>
                /\ \A i \in 2..Len(list) : list[i].role # "system"
           ELSE /\ Len(list) = PushedBefore(messages, Len(messages) + 1)
                /\ \A i \in 1..Len(list) : list[i].role # "system"

(***************************************************************************)
(* C14: the backend message list of a request is the one of the same       *)
(* request with every role "tools" written "tool" and every unrecognized   *)
(* role written "user": message by message, a role "tools" message stands  *)
(* for the same backend messages as its role "tool" twin, a message of an  *)
(* unrecognized role for the same as its role "user" twin.                 *)
(***************************************************************************)
NormalRole(role) ==
    IF role = "tools" THEN "tool"
    ELSE IF role \in {"user", "assistant", "system", "tool"} THEN role
    ELSE "user"

Twin(message) == [message EXCEPT !.role = NormalRole(message.role)]

C14_RoleNormalization ==
    (rpc = "sent")
    => LET list == MessageList(dialect, providerRequest)
           messages == claudeRequest.messages
           twins == [i \in 1..Len(messages) |-> Twin(messages[i])]
       IN  /\ list = MessageList(dialect,
                         RequestBody(dialect,
                                     [claudeRequest EXCEPT !.messages = twins]))
           /\ \A i \in 1..Len(messages) :
                  SegmentOf(list, messages, i)
                      = MessageList(dialect,
                            RequestBody(dialect,
                                [claudeRequest EXCEPT
                                     !.messages = <<Twin(messages[i])>>]))

\* A role "tools" message and a role "narrator" message have been mapped.
C14_Witness ==
    /\ rpc = "sent"
    /\ Len(claudeRequest.messages) = 2
    /\ claudeRequest.messages[1] = BlockMessage("tools", <<TextBlock(Hello), TextBlock(World)>>)
    /\ claudeRequest.messages[2] = StringMessage("narrator", World)
    /\ Len(MessageList(dialect, providerRequest)) = 2
    /\ MessageList(dialect, providerRequest)[1].content = Hello \o <<"\n">> \o World

(***************************************************************************)
(* C15 (as stated): every client response the non-stream mapper has built  *)
(* from a successful backend response carries a terminal reason, one of    *)
(* end_turn, tool_use and max_tokens, whatever the backend body.           *)
(***************************************************************************)
C15_Original ==
    \A s \in Responses :
        (pc[s] = "mapped" /\ Ok(backend[s]))
        => out[s].body.stop_reason \in {"end_turn", "tool_use", "max_tokens"}

(***************************************************************************)
(* C16: a successful backend response has gone down the streaming path     *)
(* exactly when its content-type contains text/event-stream, and down the  *)
(* non-stream mapper otherwise (a missing content-type included); never    *)
(* both: a streamed response has no mapped body, a mapped response has had *)
(* no record read and no event enqueued.                                   *)
(***************************************************************************)
C16_ContentTypeDispatch ==
    \A s \in Responses :
        (/\ pc[s] \notin {"idle", "absent"}
         /\ backend[s].status >= 200 /\ backend[s].status <= 299)
        => LET contentType == backend[s].contentType
               streaming == \E i \in 1..Len(contentType) :
                                contentType[i] = "text/event-stream"
           IN  /\ pc[s] \in {"streaming", "done", "mapped", "rejected"}
               /\ (pc[s] \in {"streaming", "done"}) <=> streaming
               /\ (pc[s] \in {"mapped", "rejected"}) <=> ~streaming
               /\ streaming => /\ out[s].body = NoBody
                               /\ events[s] # <<>>
               /\ ~streaming => /\ fed[s] = <<>>
                                /\ events[s] = <<>>
                                /\ (pc[s] = "mapped") =>
                                       out[s].body = NormalResponse(dialect,
                                                         backend[s].body)

\* A response of type text/event-stream; charset=utf-8 is being streamed.
C16_Witness ==
    \E s \in Responses :
        /\ pc[s] = "streaming"
        /\ backend[s] = Response(200, EventStreamUtf8, NoBody)
        /\ Len(fed[s]) = 1
        /\ Len(events[s]) > 1

(***************************************************************************)
(* Reading the history of the merges against the records.                  *)
(***************************************************************************)
\* The tool-call fragment of the i-th merge: every fragment of a decoded
\* record makes one merge, in the order of the record.
FragmentOf(h, log, i) ==
    LET n == log[i].rec
        k == i - Cardinality({j \in 1..i : log[j].rec < n})
    IN  h[n].tool_calls[k]

\* The merges of the slot of merge i that came before it.
EarlierOfSlot(log, i) == {j \in 1..(i - 1) : log[j].slot = log[i].slot}

Greatest(S) == CHOOSE j \in S : \A k \in S : k <= j

\* An entry for the slot of merge i existed when merge i began: the slot had
\* been merged into before and its last merge emitted nothing.
EntryExisted(log, i) ==
    /\ EarlierOfSlot(log, i) # {}
    /\ ~log[Greatest(EarlierOfSlot(log, i))].emitted

\* The entry merge i started from.
EntryBefore(log, i) ==
    IF EntryExisted(log, i) THEN log[Greatest(EarlierOfSlot(log, i))].entry
    ELSE EmptyEntry

(***************************************************************************)
(* C17: at every merge the entry's buffer becomes the buffer it had        *)
(* followed by the argument text of the fragment (so while the entry       *)
(* exists the buffer only grows), the id becomes the fragment's id if the  *)
(* fragment carries one and stays as it was otherwise, and likewise the    *)
(* name; the entry the accumulator holds for a slot is the one its last    *)
(* merge left.                                                             *)
(***************************************************************************)
C17_AppendOnly ==
    \A s \in Responses :
        LET log == merges[s]
            acc == toolCallAccumulator[AccumulatorOf(s)]
        IN  /\ \A i \in 1..Len(log) :
                 LET old == EntryBefore(log, i)
                     toolCall == FragmentOf(fed[s], log, i)
                     new == log[i].entry
                 IN  /\ SlotOf(toolCall) = log[i].slot
                     /\ new.arguments = old.arguments \o toolCall.arguments
                     /\ Len(new.arguments) >= Len(old.arguments)
                     /\ new.id = IF toolCall.id # "" THEN toolCall.id ELSE old.id
                     /\ new.name = IF toolCall.name # "" THEN toolCall.name
                                   ELSE old.name
            /\ \A k \in DOMAIN acc :
                 LET ofSlot == {i \in 1..Len(log) : log[i].slot = k}
                 IN  /\ ofSlot # {}
                     /\ acc[k] = log[Greatest(ofSlot)].entry

\* The entry of call_1 / f, made by a fragment without arguments, has grown
\* by {"a":1 and kept its id and name.
C17_Witness ==
    \E s \in Responses :
        /\ Len(merges[s]) = 2
        /\ merges[s][1].entry = [id |-> "call_1", name |-> "f", arguments |-> <<>>]
        /\ EntryExisted(merges[s], 2)
        /\ FragmentOf(fed[s], merges[s], 2) = Frag(0, "", "", ArgsOpenA)
        /\ 0 \in DOMAIN toolCallAccumulator[AccumulatorOf(s)]
        /\ toolCallAccumulator[AccumulatorOf(s)][0] =
               [id |-> "call_1", name |-> "f", arguments |-> ArgsOpenA]

(***************************************************************************)
(* C18: every merge that emitted a tool-use block took the index one past  *)
(* that of the emission before it (the first the initial cursor), so each  *)
(* emission advances the tool-use cursor by exactly one; the merge left no *)
(* entry for its slot: the next fragment of that slot starts a fresh entry *)
(* that holds the id, name and argument text of that fragment alone, and   *)
(* until such a fragment comes the accumulator has no entry for the slot.  *)
(***************************************************************************)
C18_SlotFreed ==
    \A s \in Responses :
        LET log == merges[s]
            acc == toolCallAccumulator[AccumulatorOf(s)]
            emissions == {i \in 1..Len(log) : log[i].emitted}
        IN  /\ \A i \in emissions :
                 /\ log[i].index =
                        InitialCursor + Cardinality({j \in emissions : j < i})
                 /\ \E p \in 1..Len(events[s]) :
                        /\ events[s][p].type = "content_block_start"
                        /\ events[s][p].block = "tool_use"
                        /\ events[s][p].index = log[i].index
                 /\ \A j \in (i + 1)..Len(log) :
                        (EarlierOfSlot(log, j) # {}
                         /\ Greatest(EarlierOfSlot(log, j)) = i)
                        => LET toolCall == FragmentOf(fed[s], log, j)
                           IN  /\ log[j].fresh
                               /\ log[j].entry.id = toolCall.id
                               /\ log[j].entry.name = toolCall.name
                               /\ log[j].entry.arguments = toolCall.arguments
                 /\ (\A j \in (i + 1)..Len(log) : log[j].slot # log[i].slot)
                        => log[i].slot \notin DOMAIN acc
            /\ toolUseBlockIndex[s] = InitialCursor + Cardinality(emissions)

\* The call f of slot 0 was emitted from one fragment; the next fragment of
\* slot 0, a lone closing brace, has opened an entry with neither id nor name.
C18_Witness ==
    \E s \in Responses :
        /\ Len(merges[s]) = 2
        /\ merges[s][1].emitted
        /\ merges[s][1].slot = 0
        /\ merges[s][1].entry.name = "f"
        /\ merges[s][2].slot = 0
        /\ merges[s][2].fresh
        /\ toolUseBlockIndex[s] = 1
        /\ 0 \in DOMAIN toolCallAccumulator[AccumulatorOf(s)]
        /\ toolCallAccumulator[AccumulatorOf(s)][0] =
               [id |-> "", name |-> "", arguments |-> ArgsClose]

(***************************************************************************)
(* C19: a merge after which the entry has no name, no argument text or an  *)
(* argument text that does not parse emits nothing and leaves the tool-use *)
(* cursor where it was (the tool-use blocks and the cursor count the       *)
(* merges that left a complete entry, no others); the entry stays in the   *)
(* accumulator with the buffer as merged; and no error is reported: the    *)
(* callback returns normally for that record, whose other events reach the *)
(* client.                                                                 *)
(***************************************************************************)
Incomplete(entry) ==
    \/ entry.name = ""
    \/ entry.arguments = <<>>
    \/ ~JSONParse(entry.arguments).ok

\* What the callback returns for the n-th record of h, in the state the
\* records before it have left.
OutcomeOf(d, h, n) ==
    LET before == Replay(d, FreshStream, SubSeq(h, 1, n - 1))
    IN  Decode(d, h[n], before.textBlockIndex, before.toolUseBlockIndex,
               before.acc)

C19_SilentParseFailure ==
    \A s \in Responses :
        LET log == merges[s]
            acc == toolCallAccumulator[AccumulatorOf(s)]
            complete == {i \in 1..Len(log) : ~Incomplete(log[i].entry)}
        IN  /\ \A i \in 1..Len(log) :
                 Incomplete(log[i].entry)
                 => /\ ~log[i].emitted
                    /\ log[i].index = NoIndex
                    /\ (\A j \in (i + 1)..Len(log) : log[j].slot # log[i].slot)
                           => /\ log[i].slot \in DOMAIN acc
                              /\ acc[log[i].slot] = log[i].entry
                    /\ LET outcome == OutcomeOf(dialect, fed[s], log[i].rec)
                       IN  /\ outcome.tag = "ok"
                           /\ Len(TextBlocksOf(outcome.events)) =
                                  IF fed[s][log[i].rec].content # <<>>
                                  THEN 1 ELSE 0
            /\ Len(ToolBlocksOf(events[s])) = Cardinality(complete)
            /\ toolUseBlockIndex[s] = InitialCursor + Cardinality(complete)
            /\ \A p \in 1..Len(events[s]) :
                   events[s][p].type \in
                       {"message_start", "content_block_start",
                        "content_block_delta", "content_block_stop",
                        "message_delta", "message_stop"}

\* The call g of slot 1 has come with the argument text { alone: nothing is
\* emitted, the entry waits, and the next record is decoded as usual.
C19_Witness ==
    \E s \in Responses :
        /\ pc[s] = "streaming"
        /\ Len(fed[s]) = 2
        /\ Len(merges[s]) = 1
        /\ merges[s][1].rec = 1
        /\ ~merges[s][1].emitted
        /\ merges[s][1].entry = [id |-> "call_2", name |-> "g", arguments |-> ArgsOpen]
        /\ toolCallAccumulator[AccumulatorOf(s)] = (1 :> merges[s][1].entry)
        /\ toolUseBlockIndex[s] = InitialCursor
        /\ ToolBlocksOf(events[s]) = <<>>
        /\ Len(TextBlocksOf(events[s])) = 1

(***************************************************************************)
(* C20: a record carries a text fragment when its payload parses, has a    *)
(* choice and a non-empty delta.content.  After any records the text       *)
(* cursor is the initial cursor plus the number of the records that        *)
(* carried text; each of them, in order, has given one text block, with    *)
(* its text, at the index the cursor had before it, and moved the cursor   *)
(* by exactly one; every other record has left the text cursor as it was.  *)
(***************************************************************************)
CarriesText(rec) == rec.parses /\ rec.hasChoices /\ rec.content # <<>>

TextRecords(h) == SelectSeq(h, CarriesText)

C20_TextCursor ==
    \A s \in Responses :
        Streamed(s)
        => LET h == fed[s]
               carrying == TextRecords(h)
               evs == events[s]
               starts == SelectSeq(Starts(evs), LAMBDA p : evs[p].block = "text")
           IN  /\ textBlockIndex[s] = InitialCursor + Len(carrying)
               /\ Len(starts) = Len(carrying)
               /\ \A m \in 1..Len(starts) :
                      /\ evs[starts[m]].index = InitialCursor + m - 1
                      /\ DeltaAfter(evs, starts[m]) = carrying[m].content
               /\ \A n \in 1..Len(h) :
                      LET before == Replay(dialect, FreshStream, SubSeq(h, 1, n - 1))
                          after == Replay(dialect, FreshStream, SubSeq(h, 1, n))
                      IN  after.textBlockIndex =
                              before.textBlockIndex
                                  + (IF CarriesText(h[n]) THEN 1 ELSE 0)

\* A text record, a record without choices and a record with text and a
\* whole tool call: the text cursor stands at two, the tool-use cursor at one.
C20_Witness ==
    \E s \in Responses :
        /\ pc[s] = "streaming"
        /\ fed[s] = << Delta(Hello, <<>>), NoChoices,
                       Delta(Hello, <<Frag(1, "call_2", "g", ArgsObject)>>) >>
        /\ textBlockIndex[s] = 2
        /\ toolUseBlockIndex[s] = 1
        /\ KindIndices(events[s], "text") = <<0, 1>>

(***************************************************************************)
(* C21: with the fragments of several slots interleaved, the entry a merge *)
(* leaves is made of the fragments of its own slot alone: its argument     *)
(* text is the text of the fragments of that slot since the slot's last    *)
(* emission, in order, its name the last name among them.  A merge emits   *)
(* exactly when the entry it leaves has a name and an argument text that   *)
(* parses, and the emissions take the tool-use indices in the order in     *)
(* which they happen, whatever their slots.                                *)
(***************************************************************************)
\* The merges of the slot of merge i from the one after the slot's last
\* emission up to i, ascending.
RECURSIVE RunOfSlot(_, _, _)
RunOfSlot(log, i, j) ==
    IF j < 1 THEN <<>>
    ELSE IF log[j].slot # log[i].slot THEN RunOfSlot(log, i, j - 1)
    ELSE IF j < i /\ log[j].emitted THEN <<>>
    ELSE Append(RunOfSlot(log, i, j - 1), j)

RECURSIVE TextOfRun(_, _, _)
TextOfRun(h, log, run) ==
    IF run = <<>> THEN <<>>
    ELSE FragmentOf(h, log, Head(run)).arguments \o TextOfRun(h, log, Tail(run))

RECURSIVE NameOfRun(_, _, _)
NameOfRun(h, log, run) ==
    IF run = <<>> THEN ""
    ELSE IF FragmentOf(h, log, run[Len(run)]).name # ""
    THEN FragmentOf(h, log, run[Len(run)]).name
    ELSE NameOfRun(h, log, SubSeq(run, 1, Len(run) - 1))

C21_SlotsInterleaved ==
    \A s \in Responses :
        LET log == merges[s]
            h == fed[s]
        IN  /\ \A i \in 1..Len(log) :
                 LET run == RunOfSlot(log, i, i)
                 IN  /\ log[i].slot = SlotOf(FragmentOf(h, log, i))
                     /\ log[i].entry.arguments = TextOfRun(h, log, run)
                     /\ log[i].entry.name = NameOfRun(h, log, run)
                     /\ log[i].emitted <=> ~Incomplete(log[i].entry)
            /\ \A i, j \in 1..Len(log) :
                 (i < j /\ log[i].emitted /\ log[j].emitted)
                 => log[i].index < log[j].index
            /\ LET emitted == SelectSeq(log, LAMBDA m : m.emitted)
                   tools == ToolBlocksOf(events[s])
               IN  /\ Len(tools) = Len(emitted)
                   /\ \A n \in 1..Len(emitted) :
                          /\ emitted[n].index = InitialCursor + n - 1
                          /\ tools[n].name = emitted[n].entry.name
                          /\ tools[n].input = JSONParse(emitted[n].entry.arguments).txt

\* The calls f (slot 0) and g (slot 1) were both pending; one record closed
\* a brace on each: g is complete and takes index 0, f still waits.
C21_Witness ==
    \E s \in Responses :
        /\ Len(fed[s]) = 3
        /\ Len(merges[s]) = 4
        /\ merges[s][1].slot = 0 /\ merges[s][1].entry.name = "f"
        /\ merges[s][2].slot = 1 /\ merges[s][2].entry.name = "g"
        /\ merges[s][3].slot = 0 /\ ~merges[s][3].emitted
        /\ merges[s][4].slot = 1 /\ merges[s][4].emitted
        /\ merges[s][4].index = 0
        /\ merges[s][4].entry.arguments = ArgsObject
        /\ DOMAIN toolCallAccumulator[AccumulatorOf(s)] = {0}
        /\ toolCallAccumulator[AccumulatorOf(s)][0].arguments = ArgsClose

(***************************************************************************)
(* C22 (as stated): in a client response the non-stream mapper has built,  *)
(* stop_reason is tool_use exactly when the content has a tool_use block;  *)
(* in the chat-completions dialect a stop_reason other than tool_use is    *)
(* max_tokens exactly when the backend finish_reason is length, and        *)
(* end_turn otherwise.                                                     *)
(***************************************************************************)
\* choice.finish_reason of the backend body; "" where there is no choice.
FinishReasonOf(body) ==
    IF body.choices = <<>> THEN "" ELSE body.choices[1].finish_reason

C22_Original ==
    \A s \in Responses :
        pc[s] = "mapped"
        => LET message == out[s].body
               hasToolUse == \E b \in 1..Len(message.content) :
                                 message.content[b].type = "tool_use"
           IN  /\ message.stop_reason = "tool_use" <=> hasToolUse
               /\ (dialect = "chat" /\ message.stop_reason # "tool_use")
                  => message.stop_reason =
                        IF FinishReasonOf(backend[s].body) = "length"
                        THEN "max_tokens" ELSE "end_turn"

(***************************************************************************)
(* C23: the stream decoders of the two dialects are equivalent.  Whatever  *)
(* records the decoder of the dialect in use has been fed, the decoder of  *)
(* the other dialect, started from the same cursor and an empty            *)
(* accumulator and fed the same records, has returned the same events and  *)
(* holds the same two cursors and the same accumulator entries; and the    *)
(* two return the same outcome for the last record, from the cursor and    *)
(* the accumulator the stream had reached before it.                       *)
(***************************************************************************)
OtherDialect(d) == IF d = "chat" THEN "responses" ELSE "chat"

C23_DecodersEquivalent ==
    \A s \in Responses :
        Streamed(s)
        => LET h == fed[s]
               before == Replay(OtherDialect(dialect), FreshStream,
                                SubSeq(h, 1, Len(h) - 1))
               other == IF h = <<>> THEN before
                        ELSE DriverStep(OtherDialect(dialect), before, h[Len(h)])
           IN  /\ ContentEvents(events[s]) = ContentEvents(other.events)
               /\ textBlockIndex[s] = other.textBlockIndex
               /\ toolUseBlockIndex[s] = other.toolUseBlockIndex
               /\ toolCallAccumulator[AccumulatorOf(s)] = other.acc
               /\ h # <<>>
                  => ChatDecode(h[Len(h)], before.textBlockIndex,
                                before.toolUseBlockIndex, before.acc)
                     = RespDecode(h[Len(h)], before.textBlockIndex,
                                  before.toolUseBlockIndex, before.acc)

\* Three records in: a text block and a tool call are out, a fragment of
\* another call is pending, and the two decoders agree on all of it.
C23_Witness ==
    \E s \in Responses :
        /\ Len(fed[s]) = 3
        /\ Len(TextBlocksOf(events[s])) >= 1
        /\ Len(ToolBlocksOf(events[s])) >= 1
        /\ toolCallAccumulator[AccumulatorOf(s)] # <<>>
        /\ Replay("chat", FreshStream, fed[s]).events = events[s]
        /\ Replay("responses", FreshStream, fed[s]).events = events[s]
        /\ Replay("responses", FreshStream, fed[s]).acc
               = toolCallAccumulator[AccumulatorOf(s)]

(***************************************************************************)
(* C24: a record whose payload has no choices has no effect.  For a record *)
(* that parses and has no choices the callback returns null with no event, *)
(* from whatever cursor and accumulator the stream has reached; and the    *)
(* events, the two cursors and the accumulator entries of a stream are     *)
(* those of the same records with the ones without choices left out.       *)
(***************************************************************************)
HasNoChoices(rec) == rec.parses /\ ~rec.hasChoices

C24_NoChoicesNoEffect ==
    \A s \in Responses :
        Streamed(s)
        => /\ \A rec \in Upstream(upstream) :
                  HasNoChoices(rec)
                  => Decode(dialect, rec, textBlockIndex[s], toolUseBlockIndex[s],
                            toolCallAccumulator[AccumulatorOf(s)])
                        = Outcome("null", <<>>, textBlockIndex[s],
                                  toolUseBlockIndex[s],
                                  toolCallAccumulator[AccumulatorOf(s)], <<>>)
           /\ LET without == Replay(dialect, FreshStream,
                                    SelectSeq(fed[s], LAMBDA rec : ~HasNoChoices(rec)))
              IN  /\ ContentEvents(events[s]) = ContentEvents(without.events)
                  /\ textBlockIndex[s] = without.textBlockIndex
                  /\ toolUseBlockIndex[s] = without.toolUseBlockIndex
                  /\ toolCallAccumulator[AccumulatorOf(s)] = without.acc

\* A record without choices came between two fragments of one call: the
\* call is reassembled and emitted as if it had not been there.
C24_Witness ==
    \E s \in Responses :
        /\ Len(fed[s]) = 3
        /\ HasNoChoices(fed[s][2])
        /\ fed[s][1].tool_calls # <<>>
        /\ fed[s][3].tool_calls # <<>>
        /\ Len(merges[s]) = 2
        /\ ~merges[s][1].emitted
        /\ merges[s][2].emitted
        /\ toolUseBlockIndex[s] = 1

(***************************************************************************)
(* C25 (as stated): the raw request body in the Response the echo adapter  *)
(* has built for a request is the body that request came in with, however  *)
(* the two requests through the one adapter instance interleave.           *)
(***************************************************************************)
C25_Original ==
    \A r \in EchoRequests :
        epc[r] = "done"
        => echoed[r].body.content[1].text.rawBody = inbound[r]

====
